---- MODULE Spec2Model ----
(***************************************************************************)
(* A model of the hacktile rules engine: the tile table, the bit-packed    *)
(* field with its path finders, the playground controller and the piece    *)
(* generators.                                                             *)
(*                                                                         *)
(* Packed words (compactField, the rows of the field) are modelled as the  *)
(* set of the indices of their 1 bits: bit 10*r + c of a 6x10 window is    *)
(* column c of the window's row r.  A shift maps the indices, a mask       *)
(* filters them, | is \cup and & is \cap.                                   *)
(***************************************************************************)
EXTENDS Integers, Sequences, FiniteSets, TLC

(***************************************************************************)
(* Program constants.                                                      *)
(***************************************************************************)
\* tile::maxNumPixels
maxNumPixels == 8
\* tile::maxNumRotations
maxNumRotations == 12
\* the number of columns of a field row
numColumns == 10
\* the number of rows of a compactField window
windowRows == 6
\* the row on which tile::initTileState puts the lowest line of a tile
spawnRow == 19
\* the column tile::initTileState spawns at
spawnX == 2
\* the number of rows playground drops by for the shadow and the hard drop
fieldHeight == 20

\* a null `const tile*`
Null == 0
\* enum class tetromino
Tetromino == 1..7
tetJ == 1
tetL == 2
tetS == 3
tetZ == 4
tetT == 5
tetI == 6
tetO == 7

\* field::solidRow, (1<<10)-1
solidRow == 0..(numColumns - 1)
\* compactField::fullMask, the 60 bits of the six rows
fullMask == 0..(windowRows * numColumns - 1)
\* the bits of a uint64_t
word64 == 0..63

\* the number a packed row stands for
RECURSIVE MaskOf(_)
MaskOf(bits) ==
  IF bits = {} THEN 0
  ELSE LET b == CHOOSE x \in bits : \A z \in bits : z <= x
       IN  2^b + MaskOf(bits \ {b})

(***************************************************************************)
(* tileCoord: a byte holding two signed 4-bit fields, x in the low nibble. *)
(***************************************************************************)
nibble(v) == IF v % 16 >= 8 THEN (v % 16) - 16 ELSE v % 16
coordX(value) == nibble(value % 16)
coordY(value) == nibble(value \div 16)
tileCoordAt(x, y) == (x % 16) + 16 * (y % 16)
\* coord.x = -coord.x; coord.y = -coord.y, each stored back into 4 bits
coordNegate(value) == tileCoordAt(-coordX(value), -coordY(value))

(***************************************************************************)
(* compactField                                                            *)
(***************************************************************************)
compactField_collide(field, tile) == (field \cap tile) # {}

\* result <<= x for x >= 0, result >>= -x otherwise: bits leaving the word are lost
compactField_tileMove(field, x) == {b + x : b \in field} \cap word64

compactField_fieldDown(field, row) ==
  ({b + numColumns : b \in field} \cap fullMask) \cup (row \cap solidRow)

compactField_fieldUp(field, row) ==
  {b - numColumns : b \in {c \in field \cap fullMask : c >= numColumns}}
    \cup {c + 50 : c \in row \cap solidRow}

(***************************************************************************)
(* tileDirection                                                           *)
(***************************************************************************)
dirInitial == 0
dirRight == 1
dirHalfTurned == 2
dirLeft == 3
tileDirection_rotateCW(value) == (value + 1) % 4
tileDirection_rotateCCW(value) == (value - 1) % 4
tileDirection_halfTurn(value) == (value + 2) % 4

(***************************************************************************)
(* createTetrominoTileData: the 6x6 bitmaps of the four orientations, row  *)
(* 0 on top.  A 1 stands for $, the value written into the cell.           *)
(***************************************************************************)
bitmapJ ==
  << << <<0,0,0,0,0,0>>,
        <<0,0,0,0,0,0>>,
        <<0,1,0,0,0,0>>,
        <<0,1,1,1,0,0>>,
        <<0,0,0,0,0,0>>,
        <<0,0,0,0,0,0>> >>,
     << <<0,0,0,0,0,0>>,
        <<0,0,0,0,0,0>>,
        <<0,0,1,1,0,0>>,
        <<0,0,1,0,0,0>>,
        <<0,0,1,0,0,0>>,
        <<0,0,0,0,0,0>> >>,
     << <<0,0,0,0,0,0>>,
        <<0,0,0,0,0,0>>,
        <<0,0,0,0,0,0>>,
        <<0,1,1,1,0,0>>,
        <<0,0,0,1,0,0>>,
        <<0,0,0,0,0,0>> >>,
     << <<0,0,0,0,0,0>>,
        <<0,0,0,0,0,0>>,
        <<0,0,1,0,0,0>>,
        <<0,0,1,0,0,0>>,
        <<0,1,1,0,0,0>>,
        <<0,0,0,0,0,0>> >> >>

bitmapL ==
  << << <<0,0,0,0,0,0>>,
        <<0,0,0,0,0,0>>,
        <<0,0,0,1,0,0>>,
        <<0,1,1,1,0,0>>,
        <<0,0,0,0,0,0>>,
        <<0,0,0,0,0,0>> >>,
     << <<0,0,0,0,0,0>>,
        <<0,0,0,0,0,0>>,
        <<0,0,1,0,0,0>>,
        <<0,0,1,0,0,0>>,
        <<0,0,1,1,0,0>>,
        <<0,0,0,0,0,0>> >>,
     << <<0,0,0,0,0,0>>,
        <<0,0,0,0,0,0>>,
        <<0,0,0,0,0,0>>,
        <<0,1,1,1,0,0>>,
        <<0,1,0,0,0,0>>,
        <<0,0,0,0,0,0>> >>,
     << <<0,0,0,0,0,0>>,
        <<0,0,0,0,0,0>>,
        <<0,1,1,0,0,0>>,
        <<0,0,1,0,0,0>>,
        <<0,0,1,0,0,0>>,
        <<0,0,0,0,0,0>> >> >>

bitmapS ==
  << << <<0,0,0,0,0,0>>,
        <<0,0,0,0,0,0>>,
        <<0,0,1,1,0,0>>,
        <<0,1,1,0,0,0>>,
        <<0,0,0,0,0,0>>,
        <<0,0,0,0,0,0>> >>,
     << <<0,0,0,0,0,0>>,
        <<0,0,0,0,0,0>>,
        <<0,0,1,0,0,0>>,
        <<0,0,1,1,0,0>>,
        <<0,0,0,1,0,0>>,
        <<0,0,0,0,0,0>> >>,
     << <<0,0,0,0,0,0>>,
        <<0,0,0,0,0,0>>,
        <<0,0,0,0,0,0>>,
        <<0,0,1,1,0,0>>,
        <<0,1,1,0,0,0>>,
        <<0,0,0,0,0,0>> >>,
     << <<0,0,0,0,0,0>>,
        <<0,0,0,0,0,0>>,
        <<0,1,0,0,0,0>>,
        <<0,1,1,0,0,0>>,
        <<0,0,1,0,0,0>>,
        <<0,0,0,0,0,0>> >> >>

bitmapZ ==
  << << <<0,0,0,0,0,0>>,
        <<0,0,0,0,0,0>>,
        <<0,1,1,0,0,0>>,
        <<0,0,1,1,0,0>>,
        <<0,0,0,0,0,0>>,
        <<0,0,0,0,0,0>> >>,
     << <<0,0,0,0,0,0>>,
        <<0,0,0,0,0,0>>,
        <<0,0,0,1,0,0>>,
        <<0,0,1,1,0,0>>,
        <<0,0,1,0,0,0>>,
        <<0,0,0,0,0,0>> >>,
     << <<0,0,0,0,0,0>>,
        <<0,0,0,0,0,0>>,
        <<0,0,0,0,0,0>>,
        <<0,1,1,0,0,0>>,
        <<0,0,1,1,0,0>>,
        <<0,0,0,0,0,0>> >>,
     << <<0,0,0,0,0,0>>,
        <<0,0,0,0,0,0>>,
        <<0,0,1,0,0,0>>,
        <<0,1,1,0,0,0>>,
        <<0,1,0,0,0,0>>,
        <<0,0,0,0,0,0>> >> >>

bitmapI ==
  << << <<0,0,0,0,0,0>>,
        <<0,0,0,0,0,0>>,
        <<0,1,1,1,1,0>>,
        <<0,0,0,0,0,0>>,
        <<0,0,0,0,0,0>>,
        <<0,0,0,0,0,0>> >>,
     << <<0,0,0,0,0,0>>,
        <<0,0,0,1,0,0>>,
        <<0,0,0,1,0,0>>,
        <<0,0,0,1,0,0>>,
        <<0,0,0,1,0,0>>,
        <<0,0,0,0,0,0>> >>,
     << <<0,0,0,0,0,0>>,
        <<0,0,0,0,0,0>>,
        <<0,0,0,0,0,0>>,
        <<0,1,1,1,1,0>>,
        <<0,0,0,0,0,0>>,
        <<0,0,0,0,0,0>> >>,
     << <<0,0,0,0,0,0>>,
        <<0,0,1,0,0,0>>,
        <<0,0,1,0,0,0>>,
        <<0,0,1,0,0,0>>,
        <<0,0,1,0,0,0>>,
        <<0,0,0,0,0,0>> >> >>

bitmapO ==
  << << <<0,0,0,0,0,0>>,
        <<0,0,0,0,0,0>>,
        <<0,0,1,1,0,0>>,
        <<0,0,1,1,0,0>>,
        <<0,0,0,0,0,0>>,
        <<0,0,0,0,0,0>> >>,
     << <<0,0,0,0,0,0>>,
        <<0,0,0,0,0,0>>,
        <<0,0,1,1,0,0>>,
        <<0,0,1,1,0,0>>,
        <<0,0,0,0,0,0>>,
        <<0,0,0,0,0,0>> >>,
     << <<0,0,0,0,0,0>>,
        <<0,0,0,0,0,0>>,
        <<0,0,1,1,0,0>>,
        <<0,0,1,1,0,0>>,
        <<0,0,0,0,0,0>>,
        <<0,0,0,0,0,0>> >>,
     << <<0,0,0,0,0,0>>,
        <<0,0,0,0,0,0>>,
        <<0,0,1,1,0,0>>,
        <<0,0,1,1,0,0>>,
        <<0,0,0,0,0,0>>,
        <<0,0,0,0,0,0>> >> >>

bitmapT ==
  << << <<0,0,0,0,0,0>>,
        <<0,0,0,0,0,0>>,
        <<0,0,1,0,0,0>>,
        <<0,1,1,1,0,0>>,
        <<0,0,0,0,0,0>>,
        <<0,0,0,0,0,0>> >>,
     << <<0,0,0,0,0,0>>,
        <<0,0,0,0,0,0>>,
        <<0,0,1,0,0,0>>,
        <<0,0,1,1,0,0>>,
        <<0,0,1,0,0,0>>,
        <<0,0,0,0,0,0>> >>,
     << <<0,0,0,0,0,0>>,
        <<0,0,0,0,0,0>>,
        <<0,0,0,0,0,0>>,
        <<0,1,1,1,0,0>>,
        <<0,0,1,0,0,0>>,
        <<0,0,0,0,0,0>> >>,
     << <<0,0,0,0,0,0>>,
        <<0,0,0,0,0,0>>,
        <<0,0,1,0,0,0>>,
        <<0,1,1,0,0,0>>,
        <<0,0,1,0,0,0>>,
        <<0,0,0,0,0,0>> >> >>

\* the switch of createTetrominoTileData
tetrominoBitmap(typ) ==
  CASE typ = tetJ -> bitmapJ
    [] typ = tetL -> bitmapL
    [] typ = tetS -> bitmapS
    [] typ = tetZ -> bitmapZ
    [] typ = tetT -> bitmapT
    [] typ = tetI -> bitmapI
    [] typ = tetO -> bitmapO

\* result[i][row][x] for i in 0..3, row in 0..5, x in 0..5; value 0 means uint8_t(typ)
createTetrominoTileData(typ, value) ==
  LET v == IF value = 0 THEN typ ELSE value
      bm == tetrominoBitmap(typ)
  IN  [i \in 0..3 |-> [row \in 0..5 |-> [x \in 0..5 |->
         bm[i + 1][row + 1][x + 1] * v]]]

(***************************************************************************)
(* createTetrominoRotation.  A table is result[i][j][k], i, j in 0..3 and  *)
(* k in 0..11.  The caller's buffer is an argument: the function writes    *)
(* only some of its bytes.                                                 *)
(***************************************************************************)
kickSlots == 0..(maxNumRotations - 1)

\* result[i][j][0..3] = the four kicks, result[i][j][4] = 0
setKicks(result, i, j, kicks) ==
  [result EXCEPT ![i][j] = [k \in kickSlots |->
     IF k < 4 THEN kicks[k + 1] ELSE IF k = 4 THEN 0 ELSE @[k]]]

\* for(i) for(j) result[i][j][0] = 0
rotationClearHeads(result) ==
  [i \in 0..3 |-> [j \in 0..3 |-> [result[i][j] EXCEPT ![0] = 0]]]

\* the switch: the clockwise quarter turns of each tetromino
rotationForward(result, typ) ==
  IF typ \in {tetJ, tetL, tetS, tetZ, tetT} THEN
    LET r1 == setKicks(result, 0, 1, << tileCoordAt(-1, 0), tileCoordAt(-1, 1),
                                        tileCoordAt(0, -2), tileCoordAt(-1, -2) >>)
        r2 == setKicks(r1, 1, 2, << tileCoordAt(1, 0), tileCoordAt(1, -1),
                                    tileCoordAt(0, 2), tileCoordAt(1, 2) >>)
        r3 == setKicks(r2, 2, 3, << tileCoordAt(1, 0), tileCoordAt(1, 1),
                                    tileCoordAt(0, -2), tileCoordAt(1, -2) >>)
    IN  setKicks(r3, 3, 0, << tileCoordAt(-1, 0), tileCoordAt(-1, -1),
                              tileCoordAt(0, 2), tileCoordAt(-1, 2) >>)
  ELSE IF typ = tetI THEN
    LET r1 == setKicks(result, 0, 1, << tileCoordAt(-2, 0), tileCoordAt(1, 0),
                                        tileCoordAt(-2, -1), tileCoordAt(1, 2) >>)
        r2 == setKicks(r1, 1, 2, << tileCoordAt(2, 0), tileCoordAt(-1, 0),
                                    tileCoordAt(-1, 2), tileCoordAt(2, -1) >>)
        r3 == setKicks(r2, 2, 3, << tileCoordAt(2, 0), tileCoordAt(-1, 0),
                                    tileCoordAt(2, 1), tileCoordAt(-1, -2) >>)
    IN  setKicks(r3, 3, 0, << tileCoordAt(-2, 0), tileCoordAt(1, 0),
                              tileCoordAt(1, -2), tileCoordAt(-2, 1) >>)
  ELSE result

\* the k loop of the inverse transform for one (i, j): stops at the first 0 read
RECURSIVE rotationInversePair(_, _, _, _)
rotationInversePair(result, i, j, k) ==
  IF k >= 5 \/ result[i][j][k] = 0 THEN result
  ELSE rotationInversePair(
         [result EXCEPT ![j][i][k] = coordNegate(result[i][j][k])], i, j, k + 1)

\* the i and j loops of the inverse transform, n = 4*i + j
RECURSIVE rotationInverse(_, _)
rotationInverse(result, n) ==
  IF n >= 16 THEN result
  ELSE rotationInverse(rotationInversePair(result, n \div 4, n % 4, 0), n + 1)

createTetrominoRotation(result, typ) ==
  rotationInverse(rotationForward(rotationClearHeads(result), typ), 0)

\* a buffer every byte of which is `byte`
filledRotationTable(byte) ==
  [i \in 0..3 |-> [j \in 0..3 |-> [k \in kickSlots |-> byte]]]

(***************************************************************************)
(* tile::tile.  A tile is a record: data[i] and loc[i] are the pixels of   *)
(* orientation i in scan order, followed by the 0 the constructor writes   *)
(* when fewer than maxNumPixels were found; min[i], max[i] are tileCoord   *)
(* bytes; compactTile[i] is the packed bitmap; rotateTable[i][j] is the    *)
(* list of kicks copied up to the first 0 read; thrown is the exception.   *)
(***************************************************************************)
\* the scan with the test of vmax.y the wrong way round
RECURSIVE tileScan_maxYReversed(_, _, _)
tileScan_maxYReversed(input, n, acc) ==
  IF n >= 36 \/ acc.thrown # "" THEN acc
  ELSE
    LET y == n \div 6
        x == n % 6
        v == input[5 - y][x]
    IN  IF v = 0 THEN tileScan_maxYReversed(input, n + 1, acc)
        ELSE IF Len(acc.data) >= maxNumPixels
        THEN [acc EXCEPT !.thrown = "too many pixels"]
        ELSE tileScan_maxYReversed(input, n + 1,
          [ data |-> Append(acc.data, v),
            loc |-> Append(acc.loc, tileCoordAt(x, y)),
            compactTile |-> acc.compactTile \cup {x + numColumns * y},
            vmin |-> tileCoordAt(
              IF coordX(acc.vmin) = 0 \/ coordX(acc.vmin) > x THEN x ELSE coordX(acc.vmin),
              IF coordY(acc.vmin) = 0 \/ coordY(acc.vmin) > y THEN y ELSE coordY(acc.vmin)),
            vmax |-> tileCoordAt(
              IF coordX(acc.vmax) = 0 \/ coordX(acc.vmax) < x THEN x ELSE coordX(acc.vmax),
              IF coordY(acc.vmax) = 0 \/ coordY(acc.vmax) > y THEN y ELSE coordY(acc.vmax)),
            thrown |-> "" ])

\* the y and x loops over one orientation's bitmap, n = 6*y + x
RECURSIVE tileScan(_, _, _)
tileScan(input, n, acc) ==
  IF n >= 36 \/ acc.thrown # "" THEN acc
  ELSE
    LET y == n \div 6
        x == n % 6
        v == input[5 - y][x]
    IN  IF v = 0 THEN tileScan(input, n + 1, acc)
        ELSE IF Len(acc.data) >= maxNumPixels
        THEN [acc EXCEPT !.thrown = "too many pixels"]
        ELSE tileScan(input, n + 1,
          [ data |-> Append(acc.data, v),
            loc |-> Append(acc.loc, tileCoordAt(x, y)),
            compactTile |-> acc.compactTile \cup {x + numColumns * y},
            vmin |-> tileCoordAt(
              IF coordX(acc.vmin) = 0 \/ coordX(acc.vmin) > x THEN x ELSE coordX(acc.vmin),
              IF coordY(acc.vmin) = 0 \/ coordY(acc.vmin) > y THEN y ELSE coordY(acc.vmin)),
            vmax |-> tileCoordAt(
              IF coordX(acc.vmax) = 0 \/ coordX(acc.vmax) < x THEN x ELSE coordX(acc.vmax),
              IF coordY(acc.vmax) = 0 \/ coordY(acc.vmax) < y THEN y ELSE coordY(acc.vmax)),
            thrown |-> "" ])

tileOrientation(input) ==
  LET acc == tileScan(input, 0,
        [data |-> << >>, loc |-> << >>, compactTile |-> {},
         vmin |-> 0, vmax |-> 0, thrown |-> ""])
  IN  IF Len(acc.data) < maxNumPixels /\ acc.thrown = ""
      THEN [acc EXCEPT !.data = Append(@, 0), !.loc = Append(@, 0)]
      ELSE acc

\* rotation[i][j][n] read through the flat array: index 12 of a list is index 0 of
\* the next one, and the byte after the last list is `past`
rotationRead(rotation, i, j, n, past) ==
  IF n < maxNumRotations THEN rotation[i][j][n]
  ELSE IF 4 * i + j = 15 THEN past
  ELSE rotation[(4 * i + j + 1) \div 4][(4 * i + j + 1) % 4][0]

\* the while loop copying one list: the kicks copied so far, or the exception
RECURSIVE tileKicks(_, _, _, _, _)
tileKicks(rotation, i, j, copied, past) ==
  IF rotationRead(rotation, i, j, Len(copied), past) = 0 THEN [kicks |-> copied, thrown |-> ""]
  ELSE IF Len(copied) >= maxNumRotations
  THEN [kicks |-> copied, thrown |-> "too many rotations"]
  ELSE tileKicks(rotation, i, j, Append(copied, rotation[i][j][Len(copied)]), past)

tile_tile(input, rotation, past) ==
  LET o == [i \in 0..3 |-> tileOrientation(input[i])]
      r == [i \in 0..3 |-> [j \in 0..3 |-> tileKicks(rotation, i, j, << >>, past)]]
  IN  [ data |-> [i \in 0..3 |-> o[i].data],
        loc |-> [i \in 0..3 |-> o[i].loc],
        min |-> [i \in 0..3 |-> o[i].vmin],
        max |-> [i \in 0..3 |-> o[i].vmax],
        compactTile |-> [i \in 0..3 |-> o[i].compactTile],
        rotateTable |-> [i \in 0..3 |-> [j \in 0..3 |-> r[i][j].kicks]],
        thrown |->
          IF \E i \in 0..3 : o[i].thrown # "" THEN "too many pixels"
          ELSE IF \E i \in 0..3, j \in 0..3 : r[i][j].thrown # "" THEN "too many rotations"
          ELSE "" ]

\* the loop of main() building the tiles, one per tetromino.  Its local buffer
\* `kick` is not initialised: createTetrominoRotation writes some of its bytes and
\* tile::tile reads the others as the stack left them, here all equal to `byte`
mainTiles(byte) ==
  [t \in Tetromino |->
     tile_tile(createTetrominoTileData(t, 0),
               createTetrominoRotation(filledRotationTable(byte), t), byte)]

\* the tile objects a `const tile*` points into: tiles[typ] is *typ
VARIABLE tiles

\* tile::initTileState
tile_initTileState(typ) ==
  [dir |-> dirInitial, x |-> spawnX, y |-> spawnRow - coordY(tiles[typ].min[0])]

(***************************************************************************)
(* tilePathFinder                                                          *)
(***************************************************************************)
tileState0 == [dir |-> dirInitial, x |-> 0, y |-> 0]

\* tilePathFinder(): the null path finder
tilePathFinder_null ==
  [typ |-> Null, state |-> tileState0, version |-> 0, current |-> {},
   previousWallKick |-> FALSE]

\* tilePathFinder(typ, state)
tilePathFinder_at(typ, state) ==
  [typ |-> typ, state |-> state, version |-> 0, current |-> {},
   previousWallKick |-> FALSE]

\* tilePathFinder(typ)
tilePathFinder_of(typ) == tilePathFinder_at(typ, tile_initTileState(typ))

(***************************************************************************)
(* field.  A field is a record: compactFields and fields are the two       *)
(* vectors, row 0 first (row y is element y + 1), version the counter.     *)
(* A result of spawn, move, drop or rotate is a record: ok is the value    *)
(* returned, result the output path finder, thrown the exception ("" when  *)
(* none was thrown; the output is then what it was before the call).       *)
(***************************************************************************)
\* fieldRow(): ten empty cells
emptyFieldRow == [c \in solidRow |-> 0]

\* field::field
field_field == [compactFields |-> << >>, fields |-> << >>, version |-> 1]

\* size <= y with y converted to size_t: a negative int becomes a huge unsigned number
sizeLeqInt(size, y) == IF y < 0 THEN TRUE ELSE size <= y

field_compactRowAt(f, y) ==
  IF y < 0 THEN solidRow
  ELSE IF sizeLeqInt(Len(f.compactFields), y) THEN {}
  ELSE f.compactFields[y + 1]

field_rowAt(f, y, solidCell) ==
  IF sizeLeqInt(Len(f.compactFields), y) THEN emptyFieldRow
  ELSE IF y < 0 THEN [c \in solidRow |-> solidCell]
  ELSE f.fields[y + 1]

\* assertLegit that never throws
assertLegit_off(f, pfd) == FALSE

\* field::assertLegit: TRUE when it throws
field_assertLegit(f, pfd) == pfd.version # 0 /\ pfd.version # f.version

\* isValid with the bounding box tests only
isValid_insideOnly(pfd) ==
  LET state == pfd.state
      typ == tiles[pfd.typ]
      min == typ.min[state.dir]
      max == typ.max[state.dir]
  IN  IF state.x + coordX(min) < 0 THEN FALSE
      ELSE IF state.x + coordX(max) >= 10 THEN FALSE
      ELSE state.y + coordY(max) >= 0

field_isValid(pfd) ==
  LET state == pfd.state
      typ == tiles[pfd.typ]
      min == typ.min[state.dir]
      max == typ.max[state.dir]
  IN  IF state.x + coordX(min) < 0 THEN FALSE
      ELSE IF state.x + coordX(max) >= 10 THEN FALSE
      ELSE IF state.y + coordY(max) < 0 THEN FALSE
      ELSE ~compactField_collide(pfd.current,
              compactField_tileMove(typ.compactTile[state.dir], state.x))

field_envalidate(f, pfd) == [pfd EXCEPT !.version = f.version]

\* the loop of spawn: for(i = 6; i > 0; --i) current = current.fieldDown(row y+i-1)
RECURSIVE spawnWindow(_, _, _, _)
spawnWindow(f, y, i, current) ==
  IF i <= 0 THEN current
  ELSE spawnWindow(f, y, i - 1,
         compactField_fieldDown(current, field_compactRowAt(f, y + i - 1)))

\* spawn whose loop reads the rows y+6 .. y+1: the window is one row too high
spawn_windowTooHigh(f, pfd) ==
  IF pfd.typ = Null THEN [ok |-> FALSE, result |-> pfd, thrown |-> "tile not specified"]
  ELSE
    LET built == [pfd EXCEPT !.current = spawnWindow(f, pfd.state.y + 1, windowRows, {})]
    IN  IF ~field_isValid(built) THEN [ok |-> FALSE, result |-> built, thrown |-> ""]
        ELSE [ok |-> TRUE, result |-> field_envalidate(f, built), thrown |-> ""]

\* field::spawn: pfd is both input and output
field_spawn(f, pfd) ==
  IF pfd.typ = Null THEN [ok |-> FALSE, result |-> pfd, thrown |-> "tile not specified"]
  ELSE
    LET built == [pfd EXCEPT !.current = spawnWindow(f, pfd.state.y, windowRows, {})]
    IN  IF ~field_isValid(built) THEN [ok |-> FALSE, result |-> built, thrown |-> ""]
        ELSE [ok |-> TRUE, result |-> field_envalidate(f, built), thrown |-> ""]

\* the loop to the right going on through the blocks it meets
RECURSIVE moveRight_tunnels(_, _, _, _, _)
moveRight_tunnels(current, tile, x, maxX, numSteps) ==
  IF x + maxX < 9 /\ numSteps > 0 THEN
    moveRight_tunnels(current, compactField_tileMove(tile, 1), x + 1, maxX, numSteps - 1)
  ELSE x

\* the while loop of move to the right: the x reached
RECURSIVE moveRight(_, _, _, _, _)
moveRight(current, tile, x, maxX, numSteps) ==
  IF x + maxX < 9 /\ numSteps > 0 THEN
    LET moved == compactField_tileMove(tile, 1)
    IN  IF compactField_collide(current, moved) THEN x
        ELSE moveRight(current, moved, x + 1, maxX, numSteps - 1)
  ELSE x

\* the loop to the left stopping one column before the wall
RECURSIVE moveLeft_stopsShort(_, _, _, _, _)
moveLeft_stopsShort(current, tile, x, minX, numSteps) ==
  IF x + minX > 1 /\ numSteps < 0 THEN
    LET moved == compactField_tileMove(tile, -1)
    IN  IF compactField_collide(current, moved) THEN x
        ELSE moveLeft_stopsShort(current, moved, x - 1, minX, numSteps + 1)
  ELSE x

\* the while loop of move to the left: the x reached
RECURSIVE moveLeft(_, _, _, _, _)
moveLeft(current, tile, x, minX, numSteps) ==
  IF x + minX > 0 /\ numSteps < 0 THEN
    LET moved == compactField_tileMove(tile, -1)
    IN  IF compactField_collide(current, moved) THEN x
        ELSE moveLeft(current, moved, x - 1, minX, numSteps + 1)
  ELSE x

\* *pfd.typ on a path finder without a tile: the call does not return
nullDereference == [ok |-> FALSE, result |-> tilePathFinder_null, thrown |-> "null dereference"]

\* field::move; out is the caller's output path finder before the call
field_move(f, pfd, numSteps, out) ==
  IF field_assertLegit(f, pfd)
  THEN [ok |-> FALSE, result |-> out, thrown |-> "mismatched field version"]
  ELSE IF pfd.typ = Null THEN nullDereference
  ELSE
    LET state == pfd.state
        typ == tiles[pfd.typ]
        tile == compactField_tileMove(typ.compactTile[state.dir], state.x)
        x == IF numSteps > 0
             THEN moveRight(pfd.current, tile, state.x, coordX(typ.max[state.dir]), numSteps)
             ELSE IF numSteps < 0
             THEN moveLeft(pfd.current, tile, state.x, coordX(typ.min[state.dir]), numSteps)
             ELSE state.x
    IN  IF x = state.x THEN [ok |-> FALSE, result |-> tilePathFinder_null, thrown |-> ""]
        ELSE [ok |-> TRUE, thrown |-> "",
              result |-> field_envalidate(f,
                [tilePathFinder_at(pfd.typ, [state EXCEPT !.x = x])
                   EXCEPT !.current = pfd.current])]

\* the loop of drop committing the row before it tests the collision
RECURSIVE dropLoop_commitsFirst(_, _, _, _)
dropLoop_commitsFirst(f, tile, result, numSteps) ==
  IF numSteps > 0 THEN
    LET current == compactField_fieldDown(result.current,
                     field_compactRowAt(f, result.state.y - 1))
        lower == [result EXCEPT !.state.y = @ - 1, !.current = current]
    IN  IF compactField_collide(current, tile)
        THEN [result |-> lower, numSteps |-> numSteps - 1]
        ELSE dropLoop_commitsFirst(f, tile, lower, numSteps - 1)
  ELSE [result |-> result, numSteps |-> numSteps]

\* the while loop of drop on the output path finder: [result, numSteps] at its end
RECURSIVE dropLoop(_, _, _, _)
dropLoop(f, tile, result, numSteps) ==
  IF numSteps > 0 THEN
    LET current == compactField_fieldDown(result.current,
                     field_compactRowAt(f, result.state.y - 1))
    IN  IF compactField_collide(current, tile)
        THEN [result |-> result, numSteps |-> numSteps]
        ELSE dropLoop(f, tile,
               [result EXCEPT !.state.y = @ - 1, !.current = current], numSteps - 1)
  ELSE [result |-> result, numSteps |-> numSteps]

\* drop returning false without `result = tilePathFinder()`
drop_keepsResult(f, pfd, numSteps, out) ==
  IF field_assertLegit(f, pfd)
  THEN [ok |-> FALSE, result |-> out, thrown |-> "mismatched field version"]
  ELSE IF pfd.typ = Null THEN nullDereference
  ELSE
    LET state == pfd.state
        typ == tiles[pfd.typ]
        tile == compactField_tileMove(typ.compactTile[state.dir], state.x)
        end == dropLoop(f, tile,
                 [tilePathFinder_at(pfd.typ, state) EXCEPT !.current = pfd.current],
                 numSteps)
    IN  IF end.numSteps = numSteps
        THEN [ok |-> FALSE, result |-> end.result, thrown |-> ""]
        ELSE [ok |-> TRUE, result |-> field_envalidate(f, end.result), thrown |-> ""]

\* field::drop
field_drop(f, pfd, numSteps, out) ==
  IF field_assertLegit(f, pfd)
  THEN [ok |-> FALSE, result |-> out, thrown |-> "mismatched field version"]
  ELSE IF pfd.typ = Null THEN nullDereference
  ELSE
    LET state == pfd.state
        typ == tiles[pfd.typ]
        tile == compactField_tileMove(typ.compactTile[state.dir], state.x)
        end == dropLoop(f, tile,
                 [tilePathFinder_at(pfd.typ, state) EXCEPT !.current = pfd.current],
                 numSteps)
    IN  IF end.numSteps = numSteps
        THEN [ok |-> FALSE, result |-> tilePathFinder_null, thrown |-> ""]
        ELSE [ok |-> TRUE, result |-> field_envalidate(f, end.result), thrown |-> ""]

\* the two while loops of rotate that bring the window of result to row newStateY
RECURSIVE rotateShift(_, _, _)
rotateShift(f, result, newStateY) ==
  IF result.state.y < newStateY THEN
    rotateShift(f,
      [result EXCEPT
         !.current = compactField_fieldUp(@, field_compactRowAt(f, result.state.y + 6)),
         !.state.y = @ + 1], newStateY)
  ELSE IF result.state.y > newStateY THEN
    rotateShift(f,
      [result EXCEPT
         !.current = compactField_fieldDown(@, field_compactRowAt(f, result.state.y - 1)),
         !.state.y = @ - 1], newStateY)
  ELSE result

\* the loop over the kick table that goes on after a valid entry and keeps the last
RECURSIVE rotateKicks_lastValid(_, _, _, _, _)
rotateKicks_lastValid(f, state, table, result, n) ==
  IF n > Len(table) \/ n > maxNumRotations
  THEN [ok |-> FALSE, result |-> tilePathFinder_null, thrown |-> ""]
  ELSE
    LET coord == table[n]
        shifted == rotateShift(f,
                     [result EXCEPT !.state.x = state.x + coordX(coord)],
                     state.y + coordY(coord))
        later == rotateKicks_lastValid(f, state, table, shifted, n + 1)
    IN  IF field_isValid(shifted) /\ ~later.ok
        THEN [ok |-> TRUE, thrown |-> "",
              result |-> field_envalidate(f, [shifted EXCEPT !.previousWallKick = TRUE])]
        ELSE later

\* the for loop of rotate over the kick table, from entry n (1-based in the list)
RECURSIVE rotateKicks(_, _, _, _, _)
rotateKicks(f, state, table, result, n) ==
  IF n > Len(table) \/ n > maxNumRotations
  THEN [ok |-> FALSE, result |-> tilePathFinder_null, thrown |-> ""]
  ELSE
    LET coord == table[n]
        shifted == rotateShift(f,
                     [result EXCEPT !.state.x = state.x + coordX(coord)],
                     state.y + coordY(coord))
    IN  IF field_isValid(shifted)
        THEN [ok |-> TRUE, thrown |-> "",
              result |-> field_envalidate(f, [shifted EXCEPT !.previousWallKick = TRUE])]
        ELSE rotateKicks(f, state, table, shifted, n + 1)

\* field::rotate
field_rotate(f, pfd, targetDir, out) ==
  IF field_assertLegit(f, pfd)
  THEN [ok |-> FALSE, result |-> out, thrown |-> "mismatched field version"]
  ELSE IF pfd.typ = Null THEN nullDereference
  ELSE
    LET state == pfd.state
        result == [tilePathFinder_at(pfd.typ, [state EXCEPT !.dir = targetDir])
                     EXCEPT !.current = pfd.current]
    IN  IF field_isValid(result)
        THEN [ok |-> TRUE, result |-> field_envalidate(f, result), thrown |-> ""]
        ELSE rotateKicks(f, state, tiles[pfd.typ].rotateTable[state.dir][targetDir],
                         result, 1)

\* an erase one element too far: the element after the n-th goes
eraseAt_rowAbove(vector, n) ==
  SubSeq(vector, 1, n) \o SubSeq(vector, n + 2, Len(vector))

\* the removal of element n (1-based) of a vector
eraseAt(vector, n) == SubSeq(vector, 1, n - 1) \o SubSeq(vector, n + 1, Len(vector))

\* while(state.y + max.y >= fields.size()) push_back, the int converted to size_t
RECURSIVE lockGrow(_, _)
lockGrow(f, top) ==
  IF sizeLeqInt(Len(f.fields), top)
  THEN lockGrow([f EXCEPT !.fields = Append(@, emptyFieldRow),
                          !.compactFields = Append(@, {})], top)
  ELSE f

\* the loop writing the pixels, from pixel n (1-based); x and y are uint8_t
RECURSIVE lockWrite(_, _, _, _)
lockWrite(f, typ, state, n) ==
  IF n > maxNumPixels \/ typ.data[state.dir][n] = 0 THEN f
  ELSE
    LET loc == typ.loc[state.dir][n]
        x == (state.x + coordX(loc)) % 256
        y == (state.y + coordY(loc)) % 256
    IN  lockWrite(
          [f EXCEPT !.fields[y + 1][x] = typ.data[state.dir][n],
                    !.compactFields[y + 1] = @ \cup {x}],
          typ, state, n + 1)

\* a vector without its elements at the indices (0-based) of removed
without(vector, removed) ==
  LET keptAt == {i \in 1..Len(vector) : (i - 1) \notin removed}
      nth(k) == CHOOSE i \in keptAt : Cardinality({j \in keptAt : j < i}) = k - 1
  IN  [k \in 1..Cardinality(keptAt) |-> vector[nth(k)]]

\* an erasing loop that goes over every row of the field
lockErase_everyRow(f, state, j, maxY, clear) ==
  LET solid == {y \in 0..(Len(f.compactFields) - 1) : f.compactFields[y + 1] = solidRow}
  IN  [f |-> [f EXCEPT !.fields = without(@, solid),
                       !.compactFields = without(@, solid)],
       clear |-> Cardinality(solid)]

\* the loop erasing the solid rows of the bounding box, from line j: [f, clear]
RECURSIVE lockErase(_, _, _, _, _)
lockErase(f, state, j, maxY, clear) ==
  IF j > maxY THEN [f |-> f, clear |-> clear]
  ELSE
    LET row == (state.y + j - clear) % 256
    IN  IF f.compactFields[row + 1] = solidRow
        THEN lockErase([f EXCEPT !.fields = eraseAt(@, row + 1),
                                 !.compactFields = eraseAt(@, row + 1)],
                       state, j + 1, maxY, clear + 1)
        ELSE lockErase(f, state, j + 1, maxY, clear)

\* lock that resets the caller's counter only once its precondition holds
lock_countsLate(f, pfd, clearIn) ==
  IF field_assertLegit(f, pfd)
  THEN [ok |-> FALSE, f |-> f, clear |-> clearIn, thrown |-> "mismatched field version"]
  ELSE IF pfd.typ = Null
  THEN [ok |-> FALSE, f |-> f, clear |-> 0, thrown |-> "null dereference"]
  ELSE IF ~field_isValid(pfd) THEN [ok |-> FALSE, f |-> f, clear |-> clearIn, thrown |-> ""]
  ELSE IF field_drop(f, pfd, 1, tilePathFinder_null).ok
  THEN [ok |-> FALSE, f |-> f, clear |-> clearIn, thrown |-> ""]
  ELSE
    LET state == pfd.state
        typ == tiles[pfd.typ]
        grown == lockGrow(f, state.y + coordY(typ.max[state.dir]))
        written == lockWrite(grown, typ, state, 1)
        erased == lockErase(written, state, coordY(typ.min[state.dir]),
                            coordY(typ.max[state.dir]), 0)
    IN  [ok |-> TRUE, f |-> [erased.f EXCEPT !.version = @ + 1],
         clear |-> erased.clear, thrown |-> ""]

\* lock with `++ version` inside the loop that erases: one more per row cleared
lock_versionPerClear(f, pfd, clearIn) ==
  IF field_assertLegit(f, pfd)
  THEN [ok |-> FALSE, f |-> f, clear |-> clearIn, thrown |-> "mismatched field version"]
  ELSE IF pfd.typ = Null
  THEN [ok |-> FALSE, f |-> f, clear |-> 0, thrown |-> "null dereference"]
  ELSE IF ~field_isValid(pfd) THEN [ok |-> FALSE, f |-> f, clear |-> 0, thrown |-> ""]
  ELSE IF field_drop(f, pfd, 1, tilePathFinder_null).ok
  THEN [ok |-> FALSE, f |-> f, clear |-> 0, thrown |-> ""]
  ELSE
    LET state == pfd.state
        typ == tiles[pfd.typ]
        grown == lockGrow(f, state.y + coordY(typ.max[state.dir]))
        written == lockWrite(grown, typ, state, 1)
        erased == lockErase(written, state, coordY(typ.min[state.dir]),
                            coordY(typ.max[state.dir]), 0)
    IN  [ok |-> TRUE, f |-> [erased.f EXCEPT !.version = @ + erased.clear],
         clear |-> erased.clear, thrown |-> ""]

\* field::lock: ok is the value returned, f the field after the call, clear the
\* caller's counter after it (clearIn before it)
field_lock(f, pfd, clearIn) ==
  IF field_assertLegit(f, pfd)
  THEN [ok |-> FALSE, f |-> f, clear |-> clearIn, thrown |-> "mismatched field version"]
  ELSE IF pfd.typ = Null
  THEN [ok |-> FALSE, f |-> f, clear |-> 0, thrown |-> "null dereference"]
  ELSE IF ~field_isValid(pfd) THEN [ok |-> FALSE, f |-> f, clear |-> 0, thrown |-> ""]
  ELSE IF field_drop(f, pfd, 1, tilePathFinder_null).ok
  THEN [ok |-> FALSE, f |-> f, clear |-> 0, thrown |-> ""]
  ELSE
    LET state == pfd.state
        typ == tiles[pfd.typ]
        grown == lockGrow(f, state.y + coordY(typ.max[state.dir]))
        written == lockWrite(grown, typ, state, 1)
        erased == lockErase(written, state, coordY(typ.min[state.dir]),
                            coordY(typ.max[state.dir]), 0)
    IN  [ok |-> TRUE, f |-> [erased.f EXCEPT !.version = @ + 1],
         clear |-> erased.clear, thrown |-> ""]

\* field::grow
field_grow(f, row) ==
  [ compactFields |-> << {i \in solidRow : row[i] # 0} >> \o f.compactFields,
    fields |-> << row >> \o f.fields,
    version |-> f.version + 1 ]

(***************************************************************************)
(* playground.  The controller is a record pg of its members (f, swap,     *)
(* swapEnabled, current, shadow, preview, numPreviews, previewCursor,      *)
(* state), of its generator (script: the values generate() returns, in     *)
(* order, nullptr ever after; generated: the number of calls so far) and   *)
(* of what the call in progress has done so far: events, the events        *)
(* dispatched, each with the field and the state the listeners see at the  *)
(* time; assigned, the values assigned to state; ret, the value returned;  *)
(* raised, the exception the call has let out ("" when none);              *)
(* and of the history since construction: log, the spawn, lock and swap    *)
(* events with their piece and the end events with their state, and        *)
(* attempts, the calls of spawnNextTile.                                   *)
(***************************************************************************)
notStarted == "notStarted"
inGame == "inGame"
topOut == "topOut"
exhausted == "exhausted"
completed == "completed"
playgroundState == {notStarted, inGame, topOut, exhausted, completed}

\* tileGenerator::generate of the scripted generator: [pg, tile]
generator_generate(pg) ==
  [ pg |-> [pg EXCEPT !.generated = @ + 1],
    tile |-> IF pg.generated < Len(pg.script) THEN pg.script[pg.generated + 1]
             ELSE Null ]

\* the for loop of the constructor filling preview[i .. numPreviews-1]
RECURSIVE fillPreviews(_, _)
fillPreviews(pg, i) ==
  IF i >= pg.numPreviews THEN pg
  ELSE LET g == generator_generate(pg)
       IN  fillPreviews([g.pg EXCEPT !.preview[i] = g.tile], i + 1)

\* playground::playground
playground_playground(script, numPreviews) ==
  fillPreviews(
    [ f |-> field_field, swap |-> Null, swapEnabled |-> TRUE,
      current |-> tilePathFinder_null, shadow |-> tilePathFinder_null,
      preview |-> [i \in 0..(numPreviews - 1) |-> Null],
      numPreviews |-> numPreviews, previewCursor |-> 0, state |-> notStarted,
      script |-> script, generated |-> 0,
      events |-> << >>, assigned |-> << >>, ret |-> FALSE, raised |-> "",
      log |-> << >>, attempts |-> 0 ], 0)

\* the kinds of event, one per handler of playgroundListener
tileSpawnEvent == "tileSpawn"
tileMoveEvent == "tileMove"
tileBeforeLockEvent == "tileBeforeLock"
tileLockEvent == "tileLock"
tileSwapEvent == "tileSwap"
gameEndEvent == "gameEnd"

\* an event with every field of every event struct; a struct sets its own
blankEvent ==
  [ kind |-> "", type |-> Null, location |-> tileState0, locationShadow |-> tileState0,
    before |-> tileState0, beforeShadow |-> tileState0, after |-> tileState0,
    afterShadow |-> tileState0, wallKick |-> FALSE, clear |-> 0, endState |-> "" ]

\* eventRegistry::dispatch to the listeners, which observe and do not call back
playground_dispatch(pg, event) ==
  [pg EXCEPT
     !.events = Append(@, [event |-> event, f |-> pg.f, state |-> pg.state]),
     !.log = IF event.kind \in {tileMoveEvent, tileBeforeLockEvent} THEN @
             ELSE IF event.kind = gameEndEvent
             THEN Append(@, << event.kind, event.endState >>)
             ELSE Append(@, << event.kind, event.type >>)]

\* state = s
setState(pg, s) == [pg EXCEPT !.state = s, !.assigned = Append(@, s)]

\* spawnTile reporting the end of the game before the tile that topped out
spawnTile_endBeforeSpawn(pg, typ) ==
  IF typ = Null THEN [pg EXCEPT !.raised = "null dereference"] ELSE
  LET spawned == field_spawn(pg.f, tilePathFinder_of(typ))
      p1 == [pg EXCEPT !.current = spawned.result, !.shadow = tilePathFinder_of(typ)]
  IN  IF spawned.thrown # "" THEN [p1 EXCEPT !.raised = spawned.thrown]
      ELSE IF ~spawned.ok THEN
        LET p2 == setState([p1 EXCEPT !.current = tilePathFinder_of(typ)], topOut)
            p3 == playground_dispatch(p2,
                    [blankEvent EXCEPT !.kind = gameEndEvent, !.endState = p2.state])
        IN  playground_dispatch(p3,
              [blankEvent EXCEPT !.kind = tileSpawnEvent,
                 !.type = p3.current.typ, !.location = p3.current.state,
                 !.locationShadow = p3.shadow.state])
      ELSE
        LET newShadow == field_drop(p1.f, p1.current, fieldHeight, tilePathFinder_null)
            p2 == IF newShadow.ok THEN [p1 EXCEPT !.shadow = newShadow.result] ELSE p1
        IN  playground_dispatch(p2,
              [blankEvent EXCEPT !.kind = tileSpawnEvent,
                 !.type = p2.current.typ, !.location = p2.current.state,
                 !.locationShadow = p2.shadow.state])

\* playground::spawnTile
playground_spawnTile(pg, typ) ==
  IF typ = Null THEN [pg EXCEPT !.raised = "null dereference"] ELSE
  LET spawned == field_spawn(pg.f, tilePathFinder_of(typ))
      p1 == [pg EXCEPT !.current = spawned.result, !.shadow = tilePathFinder_of(typ)]
  IN  IF spawned.thrown # "" THEN [p1 EXCEPT !.raised = spawned.thrown]
      ELSE IF ~spawned.ok THEN
        LET p2 == setState([p1 EXCEPT !.current = tilePathFinder_of(typ)], topOut)
            p3 == playground_dispatch(p2,
                    [blankEvent EXCEPT !.kind = tileSpawnEvent,
                       !.type = p2.current.typ, !.location = p2.current.state,
                       !.locationShadow = p2.shadow.state])
        IN  playground_dispatch(p3,
              [blankEvent EXCEPT !.kind = gameEndEvent, !.endState = p3.state])
      ELSE
        LET newShadow == field_drop(p1.f, p1.current, fieldHeight, tilePathFinder_null)
            p2 == IF newShadow.ok THEN [p1 EXCEPT !.shadow = newShadow.result] ELSE p1
        IN  playground_dispatch(p2,
              [blankEvent EXCEPT !.kind = tileSpawnEvent,
                 !.type = p2.current.typ, !.location = p2.current.state,
                 !.locationShadow = p2.shadow.state])

\* spawnNextTile without `++previewCursor`: the cursor stays on the slot just refilled
spawnNextTile_cursorStays(pg0) ==
  LET pg == [pg0 EXCEPT !.attempts = @ + 1]
      currentType == pg.preview[pg.previewCursor]
  IN  IF currentType = Null THEN
        LET p1 == setState([pg EXCEPT !.current = tilePathFinder_null,
                                      !.shadow = tilePathFinder_null], exhausted)
        IN  playground_dispatch(p1,
              [blankEvent EXCEPT !.kind = gameEndEvent, !.endState = p1.state])
      ELSE
        LET previous == IF pg.previewCursor = 0 THEN pg.preview[pg.numPreviews - 1]
                        ELSE pg.preview[pg.previewCursor - 1]
            g == IF previous # Null THEN generator_generate(pg)
                 ELSE [pg |-> pg, tile |-> Null]
            p1 == [g.pg EXCEPT !.preview[pg.previewCursor] = g.tile]
        IN  playground_spawnTile(p1, currentType)

\* spawnNextTile that asks the generator whatever the slot before holds
spawnNextTile_alwaysRefills(pg0) ==
  LET pg == [pg0 EXCEPT !.attempts = @ + 1]
      currentType == pg.preview[pg.previewCursor]
  IN  IF currentType = Null THEN
        LET p1 == setState([pg EXCEPT !.current = tilePathFinder_null,
                                      !.shadow = tilePathFinder_null], exhausted)
        IN  playground_dispatch(p1,
              [blankEvent EXCEPT !.kind = gameEndEvent, !.endState = p1.state])
      ELSE
        LET g == generator_generate(pg)
            p1 == [g.pg EXCEPT
                     !.preview[pg.previewCursor] = g.tile,
                     !.previewCursor = IF @ + 1 >= pg.numPreviews THEN 0 ELSE @ + 1]
        IN  playground_spawnTile(p1, currentType)

\* spawnNextTile that reads the piece to spawn after it has refilled the slot
spawnNextTile_refillsFirst(pg0) ==
  LET pg == [pg0 EXCEPT !.attempts = @ + 1]
  IN  IF pg.preview[pg.previewCursor] = Null THEN
        LET p1 == setState([pg EXCEPT !.current = tilePathFinder_null,
                                      !.shadow = tilePathFinder_null], exhausted)
        IN  playground_dispatch(p1,
              [blankEvent EXCEPT !.kind = gameEndEvent, !.endState = p1.state])
      ELSE
        LET previous == IF pg.previewCursor = 0 THEN pg.preview[pg.numPreviews - 1]
                        ELSE pg.preview[pg.previewCursor - 1]
            g == IF previous # Null THEN generator_generate(pg)
                 ELSE [pg |-> pg, tile |-> Null]
            p1 == [g.pg EXCEPT
                     !.preview[pg.previewCursor] = g.tile,
                     !.previewCursor = IF @ + 1 >= pg.numPreviews THEN 0 ELSE @ + 1]
        IN  playground_spawnTile(p1, g.tile)

\* playground::spawnNextTile
playground_spawnNextTile(pg0) ==
  LET pg == [pg0 EXCEPT !.attempts = @ + 1]
      currentType == pg.preview[pg.previewCursor]
  IN  IF currentType = Null THEN
        LET p1 == setState([pg EXCEPT !.current = tilePathFinder_null,
                                      !.shadow = tilePathFinder_null], exhausted)
        IN  playground_dispatch(p1,
              [blankEvent EXCEPT !.kind = gameEndEvent, !.endState = p1.state])
      ELSE
        LET previous == IF pg.previewCursor = 0 THEN pg.preview[pg.numPreviews - 1]
                        ELSE pg.preview[pg.previewCursor - 1]
            g == IF previous # Null THEN generator_generate(pg)
                 ELSE [pg |-> pg, tile |-> Null]
            p1 == [g.pg EXCEPT
                     !.preview[pg.previewCursor] = g.tile,
                     !.previewCursor = IF @ + 1 >= pg.numPreviews THEN 0 ELSE @ + 1]
        IN  playground_spawnTile(p1, currentType)

\* playground::isInGame
playground_isInGame(pg) == pg.state = inGame

\* getPreview that forgets the cursor: the i-th slot of the array
getPreview_fromSlotZero(pg, i) ==
  IF i < 0 \/ i >= pg.numPreviews THEN Null ELSE pg.preview[i]

\* playground::getPreview
playground_getPreview(pg, i) ==
  IF i < 0 \/ i >= pg.numPreviews THEN Null
  ELSE pg.preview[(pg.previewCursor + i) % pg.numPreviews]

\* start without its test of the state
start_inAnyState(pg) == playground_spawnNextTile(setState(pg, inGame))

\* start that spawns nothing
start_withoutSpawn(pg) ==
  IF pg.state # notStarted THEN pg
  ELSE setState(pg, inGame)

\* playground::start
playground_start(pg) ==
  IF pg.state # notStarted THEN pg
  ELSE playground_spawnNextTile(setState(pg, inGame))

\* complete without its test of the state
complete_fromAnyState(pg) ==
  LET p1 == setState(pg, completed)
  IN  playground_dispatch(p1,
        [blankEvent EXCEPT !.kind = gameEndEvent, !.endState = p1.state])

\* complete that takes the piece out of the field, as an exhausted game does
complete_dropsPiece(pg) ==
  IF pg.state # inGame THEN pg
  ELSE LET p1 == setState([pg EXCEPT !.current = tilePathFinder_null,
                                     !.shadow = tilePathFinder_null], completed)
       IN  playground_dispatch(p1,
             [blankEvent EXCEPT !.kind = gameEndEvent, !.endState = p1.state])

\* playground::complete
playground_complete(pg) ==
  IF pg.state # inGame THEN pg
  ELSE LET p1 == setState(pg, completed)
       IN  playground_dispatch(p1,
             [blankEvent EXCEPT !.kind = gameEndEvent, !.endState = p1.state])

\* tileMove dropping the path finder swapped out for the shadow
tileMove_shadowOfBefore(pg, pfd) ==
  LET dropped == field_drop(pg.f, pg.current, fieldHeight, tilePathFinder_null)
      newShadow == IF dropped.ok THEN dropped.result ELSE pfd
      p1 == [pg EXCEPT !.current = pfd, !.shadow = newShadow]
  IN  playground_dispatch(p1,
        [blankEvent EXCEPT !.kind = tileMoveEvent, !.type = p1.current.typ,
           !.before = pg.current.state, !.beforeShadow = pg.shadow.state,
           !.after = p1.current.state, !.afterShadow = p1.shadow.state,
           !.wallKick = p1.current.previousWallKick])

\* tileMove taking the flag of the path finder swapped out
tileMove_flagOfBefore(pg, pfd) ==
  LET dropped == field_drop(pg.f, pfd, fieldHeight, tilePathFinder_null)
      newShadow == IF dropped.ok THEN dropped.result ELSE pfd
      p1 == [pg EXCEPT !.current = pfd, !.shadow = newShadow]
  IN  playground_dispatch(p1,
        [blankEvent EXCEPT !.kind = tileMoveEvent, !.type = p1.current.typ,
           !.before = pg.current.state, !.beforeShadow = pg.shadow.state,
           !.after = p1.current.state, !.afterShadow = p1.shadow.state,
           !.wallKick = pg.current.previousWallKick])

\* playground::tileMove
playground_tileMove(pg, pfd) ==
  LET dropped == field_drop(pg.f, pfd, fieldHeight, tilePathFinder_null)
      newShadow == IF dropped.ok THEN dropped.result ELSE pfd
      p1 == [pg EXCEPT !.current = pfd, !.shadow = newShadow]
  IN  playground_dispatch(p1,
        [blankEvent EXCEPT !.kind = tileMoveEvent, !.type = p1.current.typ,
           !.before = pg.current.state, !.beforeShadow = pg.shadow.state,
           !.after = p1.current.state, !.afterShadow = p1.shadow.state,
           !.wallKick = p1.current.previousWallKick])

\* the common end of move, drop and rotate, given what the field answered
playground_moved(pg, answer) ==
  IF answer.thrown # "" THEN [pg EXCEPT !.raised = answer.thrown]
  ELSE IF ~answer.ok THEN [pg EXCEPT !.ret = FALSE]
  ELSE [playground_tileMove(pg, answer.result) EXCEPT !.ret = TRUE]

\* playground::move
playground_move(pg, movement) ==
  IF ~playground_isInGame(pg) THEN [pg EXCEPT !.ret = FALSE]
  ELSE playground_moved(pg, field_move(pg.f, pg.current, movement, tilePathFinder_null))

\* drop telling its listeners of a drop that did not happen
drop_reportsNoTravel(pg, movement) ==
  IF ~playground_isInGame(pg) THEN [pg EXCEPT !.ret = FALSE]
  ELSE LET answer == field_drop(pg.f, pg.current, movement, tilePathFinder_null)
       IN  IF answer.ok THEN playground_moved(pg, answer)
           ELSE [playground_tileMove(pg, pg.current) EXCEPT !.ret = FALSE]

\* playground::drop
playground_drop(pg, movement) ==
  IF ~playground_isInGame(pg) THEN [pg EXCEPT !.ret = FALSE]
  ELSE playground_moved(pg, field_drop(pg.f, pg.current, movement, tilePathFinder_null))

\* playground::rotate
playground_rotate(pg, newDir) ==
  IF ~playground_isInGame(pg) THEN [pg EXCEPT !.ret = FALSE]
  ELSE playground_moved(pg, field_rotate(pg.f, pg.current, newDir, tilePathFinder_null))

\* playground::rotateCCW
playground_rotateCCW(pg) ==
  IF ~playground_isInGame(pg) THEN [pg EXCEPT !.ret = FALSE]
  ELSE playground_rotate(pg, tileDirection_rotateCCW(pg.current.state.dir))

\* playground::rotateCW
playground_rotateCW(pg) ==
  IF ~playground_isInGame(pg) THEN [pg EXCEPT !.ret = FALSE]
  ELSE playground_rotate(pg, tileDirection_rotateCW(pg.current.state.dir))

\* playground::halfTurn
playground_halfTurn(pg) ==
  IF ~playground_isInGame(pg) THEN [pg EXCEPT !.ret = FALSE]
  ELSE playground_rotate(pg, tileDirection_halfTurn(pg.current.state.dir))

\* hardDrop dispatching tileLock before it locks the tile
hardDrop_lockAfterEvent(pg) ==
  IF ~playground_isInGame(pg) THEN [pg EXCEPT !.ret = FALSE]
  ELSE
    LET p1 == playground_drop(pg, fieldHeight)
        type == p1.current.typ
        location == p1.current.state
        p2 == playground_dispatch(p1,
                [blankEvent EXCEPT !.kind = tileBeforeLockEvent,
                   !.type = type, !.location = location])
        locked == field_lock(p2.f, p2.current, 0)
        p3 == playground_dispatch(p2,
                [blankEvent EXCEPT !.kind = tileLockEvent, !.type = type,
                   !.location = location, !.clear = locked.clear])
        p4 == [p3 EXCEPT !.f = locked.f, !.current = tilePathFinder_null,
                         !.shadow = tilePathFinder_null, !.swapEnabled = TRUE]
        p5 == IF playground_isInGame(p4) THEN playground_spawnNextTile(p4) ELSE p4
    IN  IF p1.raised # "" THEN p1
        ELSE IF type = Null THEN [p1 EXCEPT !.raised = "null dereference"]
        ELSE IF locked.thrown # "" THEN [p2 EXCEPT !.raised = locked.thrown]
        ELSE [p5 EXCEPT !.ret = (p5.raised = "")]

\* hardDrop locking the tile where it is, without drop(20)
hardDrop_withoutDrop(pg) ==
  IF ~playground_isInGame(pg) THEN [pg EXCEPT !.ret = FALSE]
  ELSE
    LET type == pg.current.typ
        location == pg.current.state
        p2 == playground_dispatch(pg,
                [blankEvent EXCEPT !.kind = tileBeforeLockEvent,
                   !.type = type, !.location = location])
        locked == field_lock(p2.f, p2.current, 0)
        p3 == [p2 EXCEPT !.f = locked.f, !.current = tilePathFinder_null,
                         !.shadow = tilePathFinder_null, !.swapEnabled = TRUE]
        p4 == playground_dispatch(p3,
                [blankEvent EXCEPT !.kind = tileLockEvent, !.type = type,
                   !.location = location, !.clear = locked.clear])
        p5 == IF playground_isInGame(p4) THEN playground_spawnNextTile(p4) ELSE p4
    IN  IF type = Null THEN [pg EXCEPT !.raised = "null dereference"]
        ELSE IF locked.thrown # "" THEN [p2 EXCEPT !.raised = locked.thrown]
        ELSE [p5 EXCEPT !.ret = (p5.raised = "")]

\* playground::hardDrop
playground_hardDrop(pg) ==
  IF ~playground_isInGame(pg) THEN [pg EXCEPT !.ret = FALSE]
  ELSE
    LET p1 == playground_drop(pg, fieldHeight)
        type == p1.current.typ
        location == p1.current.state
        p2 == playground_dispatch(p1,
                [blankEvent EXCEPT !.kind = tileBeforeLockEvent,
                   !.type = type, !.location = location])
        locked == field_lock(p2.f, p2.current, 0)
        p3 == [p2 EXCEPT !.f = locked.f, !.current = tilePathFinder_null,
                         !.shadow = tilePathFinder_null, !.swapEnabled = TRUE]
        p4 == playground_dispatch(p3,
                [blankEvent EXCEPT !.kind = tileLockEvent, !.type = type,
                   !.location = location, !.clear = locked.clear])
        p5 == IF playground_isInGame(p4) THEN playground_spawnNextTile(p4) ELSE p4
    IN  IF p1.raised # "" THEN p1
        ELSE IF type = Null THEN [p1 EXCEPT !.raised = "null dereference"]
        ELSE IF locked.thrown # "" THEN [p2 EXCEPT !.raised = locked.thrown]
        ELSE [p5 EXCEPT !.ret = (p5.raised = "")]

\* swapTile without its test of the state
swapTile_inAnyState(pg) ==
  IF ~pg.swapEnabled THEN [pg EXCEPT !.ret = FALSE]
  ELSE
    LET typ == pg.current.typ
        previous == pg.swap
        p1 == [pg EXCEPT !.current = tilePathFinder_null, !.shadow = tilePathFinder_null,
                         !.swap = typ, !.swapEnabled = (previous = Null)]
        p2 == playground_dispatch(p1,
                [blankEvent EXCEPT !.kind = tileSwapEvent, !.type = typ,
                   !.location = pg.current.state, !.locationShadow = pg.shadow.state])
        p3 == IF previous = Null THEN playground_spawnNextTile(p2)
              ELSE playground_spawnTile(p2, previous)
    IN  [p3 EXCEPT !.ret = (p3.raised = "")]

\* swapTile that always takes its next piece from the preview queue
swapTile_alwaysNext(pg) ==
  IF ~playground_isInGame(pg) THEN [pg EXCEPT !.ret = FALSE]
  ELSE IF ~pg.swapEnabled THEN [pg EXCEPT !.ret = FALSE]
  ELSE
    LET typ == pg.current.typ
        previous == pg.swap
        p1 == [pg EXCEPT !.current = tilePathFinder_null, !.shadow = tilePathFinder_null,
                         !.swap = typ, !.swapEnabled = (previous = Null)]
        p2 == playground_dispatch(p1,
                [blankEvent EXCEPT !.kind = tileSwapEvent, !.type = typ,
                   !.location = pg.current.state, !.locationShadow = pg.shadow.state])
        p3 == playground_spawnNextTile(p2)
    IN  IF typ = Null THEN [pg EXCEPT !.raised = "null dereference"]
        ELSE [p3 EXCEPT !.ret = (p3.raised = "")]

\* playground::swapTile
playground_swapTile(pg) ==
  IF ~playground_isInGame(pg) THEN [pg EXCEPT !.ret = FALSE]
  ELSE IF ~pg.swapEnabled THEN [pg EXCEPT !.ret = FALSE]
  ELSE
    LET typ == pg.current.typ
        previous == pg.swap
        p1 == [pg EXCEPT !.current = tilePathFinder_null, !.shadow = tilePathFinder_null,
                         !.swap = typ, !.swapEnabled = (previous = Null)]
        p2 == playground_dispatch(p1,
                [blankEvent EXCEPT !.kind = tileSwapEvent, !.type = typ,
                   !.location = pg.current.state, !.locationShadow = pg.shadow.state])
        p3 == IF previous = Null THEN playground_spawnNextTile(p2)
              ELSE playground_spawnTile(p2, previous)
    IN  IF typ = Null THEN [pg EXCEPT !.raised = "null dereference"]
        ELSE [p3 EXCEPT !.ret = (p3.raised = "")]

(***************************************************************************)
(* Listeners that call back.  dispatch runs the handlers in line, so a      *)
(* handler may call the playground from inside the operation that          *)
(* dispatched the event.  A listener is [on, call]: the kind of event its   *)
(* handler answers and the operation the handler calls; the operation      *)
(* called runs to its end, its own events reaching no handler that calls    *)
(* back, before dispatch returns.  An exception of the call leaves through  *)
(* dispatch and the enclosing operation.                                    *)
(***************************************************************************)
\* a listener whose handlers call nothing
deaf == [on |-> "", call |-> ""]

RECURSIVE playground_hardDropTo(_, _)
RECURSIVE playground_swapTileTo(_, _)

\* what a handler calls: the events of the operation called reach no handler
\* that calls back
listener_call(pg, call) ==
  IF call = "complete" THEN playground_complete(pg)
  ELSE IF call = "hardDrop" THEN playground_hardDropTo(pg, deaf)
  ELSE playground_swapTileTo(pg, deaf)

\* playground::dispatch with the listener among the subscribers
playground_dispatchTo(pg, event, listener) ==
  IF listener.on = event.kind
  THEN listener_call(playground_dispatch(pg, event), listener.call)
  ELSE playground_dispatch(pg, event)

\* `return value`, unless an exception is on its way out
listener_returns(pg, value) == IF pg.raised # "" THEN pg ELSE [pg EXCEPT !.ret = value]

\* spawnNextTile and spawnTile with the listener, pg being the playground they
\* leave: the tileSpawn of a piece that spawned is the last statement of
\* spawnTile; the one of a piece that topped out is dispatched with the state
\* topOut, in which the three operations return at once
listener_afterSpawn(pg, listener) ==
  IF /\ listener.on = tileSpawnEvent /\ pg.raised = "" /\ pg.events # << >>
     /\ pg.events[Len(pg.events)].event.kind = tileSpawnEvent
  THEN listener_call(pg, listener.call)
  ELSE pg

\* playground::tileMove with the listener, dropped being what f.drop(current, 20,
\* newShadow) answers
playground_tileMoveTo(pg, pfd, dropped, listener) ==
  playground_dispatchTo(
    [pg EXCEPT !.current = pfd, !.shadow = IF dropped.ok THEN dropped.result ELSE pfd],
    [blankEvent EXCEPT !.kind = tileMoveEvent, !.type = pfd.typ,
       !.before = pg.current.state, !.beforeShadow = pg.shadow.state,
       !.after = pfd.state,
       !.afterShadow = IF dropped.ok THEN dropped.result.state ELSE pfd.state,
       !.wallKick = pfd.previousWallKick],
    listener)

\* the end of playground::drop with the listener, given what the field answered
playground_droppedTo(pg, answer, listener) ==
  IF answer.thrown # "" THEN [pg EXCEPT !.raised = answer.thrown]
  ELSE IF ~answer.ok THEN [pg EXCEPT !.ret = FALSE]
  ELSE listener_returns(
         playground_tileMoveTo(pg, answer.result,
           field_drop(pg.f, answer.result, fieldHeight, tilePathFinder_null), listener),
         TRUE)

\* playground::drop with the listener
playground_dropTo(pg, movement, listener) ==
  IF ~playground_isInGame(pg) THEN [pg EXCEPT !.ret = FALSE]
  ELSE playground_droppedTo(pg,
         field_drop(pg.f, pg.current, movement, tilePathFinder_null), listener)

\* the end of hardDrop with the listener, from `if(isInGame()) spawnNextTile()`
hardDropTo_spawn(pg, listener) ==
  IF pg.raised # "" THEN pg
  ELSE IF playground_isInGame(pg)
  THEN listener_returns(listener_afterSpawn(playground_spawnNextTile(pg), listener), TRUE)
  ELSE [pg EXCEPT !.ret = TRUE]

\* hardDrop with the listener from the answer of f.lock(current, clear)
hardDropTo_locked(pg, locked, type, location, listener) ==
  IF locked.thrown # "" THEN [pg EXCEPT !.raised = locked.thrown]
  ELSE hardDropTo_spawn(
         playground_dispatchTo(
           [pg EXCEPT !.f = locked.f, !.current = tilePathFinder_null,
                      !.shadow = tilePathFinder_null, !.swapEnabled = TRUE],
           [blankEvent EXCEPT !.kind = tileLockEvent, !.type = type,
              !.location = location, !.clear = locked.clear],
           listener),
         listener)

\* hardDrop with the listener from the return of the tileBeforeLock handlers
hardDropTo_lock(pg, type, location, listener) ==
  IF pg.raised # "" THEN pg
  ELSE hardDropTo_locked(pg, field_lock(pg.f, pg.current, 0), type, location, listener)

\* hardDrop with the listener from the return of drop(20)
hardDropTo_dropped(pg, listener) ==
  IF pg.raised # "" THEN pg
  ELSE IF pg.current.typ = Null THEN [pg EXCEPT !.raised = "null dereference"]
  ELSE hardDropTo_lock(
         playground_dispatchTo(pg,
           [blankEvent EXCEPT !.kind = tileBeforeLockEvent,
              !.type = pg.current.typ, !.location = pg.current.state],
           listener),
         pg.current.typ, pg.current.state, listener)

\* playground::hardDrop with the listener
playground_hardDropTo(pg, listener) ==
  IF ~playground_isInGame(pg) THEN [pg EXCEPT !.ret = FALSE]
  ELSE hardDropTo_dropped(playground_dropTo(pg, fieldHeight, listener), listener)

\* swapTile with the listener from the return of the tileSwap handlers
swapTileTo_spawn(pg, previous, listener) ==
  IF pg.raised # "" THEN pg
  ELSE listener_returns(
         listener_afterSpawn(
           IF previous = Null THEN playground_spawnNextTile(pg)
           ELSE playground_spawnTile(pg, previous),
           listener),
         TRUE)

\* playground::swapTile with the listener
playground_swapTileTo(pg, listener) ==
  IF ~playground_isInGame(pg) THEN [pg EXCEPT !.ret = FALSE]
  ELSE IF ~pg.swapEnabled THEN [pg EXCEPT !.ret = FALSE]
  ELSE IF pg.current.typ = Null THEN [pg EXCEPT !.raised = "null dereference"]
  ELSE swapTileTo_spawn(
         playground_dispatchTo(
           [pg EXCEPT !.current = tilePathFinder_null, !.shadow = tilePathFinder_null,
                      !.swap = pg.current.typ, !.swapEnabled = (pg.swap = Null)],
           [blankEvent EXCEPT !.kind = tileSwapEvent, !.type = pg.current.typ,
              !.location = pg.current.state, !.locationShadow = pg.shadow.state],
           listener),
         pg.swap, listener)

(***************************************************************************)
(* eventSubscription and eventRegistry (event.hpp).  The objects are       *)
(* numbered: 0 is the sentinel of the registry, noSub is nullptr.  subs    *)
(* maps every object that exists to its members previous, next, handler.   *)
(***************************************************************************)
sentinel == 0
noSub == -1

\* eventSubscription(previous, handler): the object id inserted after previous
eventSubscription_insert(subs, id, previous, handler) ==
  LET next == subs[previous].next
      s1 == [n \in DOMAIN subs \cup {id} |->
               IF n = id THEN [previous |-> previous, next |-> next, handler |-> handler]
               ELSE subs[n]]
      s2 == [s1 EXCEPT ![previous].next = id]
  IN  IF next # noSub THEN [s2 EXCEPT ![next].previous = id] ELSE s2

\* a move that leaves r linked
move_keepsSource(subs, id, r) ==
  LET previous == subs[r].previous
      next == subs[r].next
      s1 == [n \in DOMAIN subs \cup {id} |->
               IF n = id THEN [previous |-> previous, next |-> next,
                               handler |-> subs[r].handler]
               ELSE subs[n]]
      s2 == IF previous # noSub THEN [s1 EXCEPT ![previous].next = id] ELSE s1
  IN  IF next # noSub THEN [s2 EXCEPT ![next].previous = id] ELSE s2

\* eventSubscription(eventSubscription&& r): the object id made from r
eventSubscription_move(subs, id, r) ==
  LET previous == subs[r].previous
      next == subs[r].next
      s1 == [n \in DOMAIN subs \cup {id} |->
               IF n = id THEN [previous |-> previous, next |-> next,
                               handler |-> subs[r].handler]
               ELSE subs[n]]
      s2 == IF previous # noSub THEN [s1 EXCEPT ![previous].next = id] ELSE s1
      s3 == IF next # noSub THEN [s2 EXCEPT ![next].previous = id] ELSE s2
  IN  [s3 EXCEPT ![r].previous = noSub, ![r].next = noSub]

\* ~eventSubscription(): the object id is unlinked and is no more
eventSubscription_destroy(subs, id) ==
  LET previous == subs[id].previous
      next == subs[id].next
      s1 == IF previous # noSub THEN [subs EXCEPT ![previous].next = next] ELSE subs
      s2 == IF next # noSub THEN [s1 EXCEPT ![next].previous = previous] ELSE s1
  IN  [n \in DOMAIN subs \ {id} |-> s2[n]]

\* the while loop of dissolveChain on the object id
RECURSIVE dissolveLoop(_, _)
dissolveLoop(subs, id) ==
  IF subs[id].next = noSub THEN subs
  ELSE LET next == subs[id].next
           s1 == [subs EXCEPT ![next].previous = noSub]
           nextNext == s1[next].next
           s2 == [s1 EXCEPT ![next].next = noSub]
       IN  dissolveLoop([s2 EXCEPT ![id].next = nextNext], id)

\* eventSubscription::dissolveChain
eventSubscription_dissolveChain(subs, id) ==
  dissolveLoop(IF subs[id].previous # noSub
               THEN [subs EXCEPT ![subs[id].previous].next = noSub] ELSE subs, id)

\* the for loop of dispatch from the object sub: the handlers called, in order
RECURSIVE dispatchLoop(_, _, _)
dispatchLoop(subs, sub, called) ==
  IF sub = sentinel THEN called
  ELSE dispatchLoop(subs, subs[sub].next, Append(called, subs[sub].handler))

\* eventRegistry::dispatch
eventRegistry_dispatch(subs) == dispatchLoop(subs, subs[sentinel].next, << >>)

\* eventRegistry::eventRegistry: made counts the subscriptions made so far, alive
\* tells that the registry is not destroyed, called is what the last dispatch
\* called; order is the history: the subscriptions linked, in the order in which
\* they were subscribed, a moved one in the place of the one it was made from
eventRegistry_eventRegistry ==
  [ subs |-> [n \in {sentinel} |->
                [previous |-> sentinel, next |-> sentinel, handler |-> 0]],
    made |-> 0, alive |-> TRUE, called |-> << >>, dispatches |-> 0, order |-> << >> ]

(***************************************************************************)
(* The state.                                                              *)
(***************************************************************************)
VARIABLES
  \* the members of the playground
  f, swap, swapEnabled, current, shadow, preview, numPreviews, previewCursor, state,
  \* its generator
  script, generated,
  \* what the last call did, and the history since construction
  events, assigned, ret, raised, log, attempts,
  \* the caller: the commands that changed the piece so far, and how many it issues
  moves, maxMoves

pgVars == << f, swap, swapEnabled, current, shadow, preview, numPreviews,
             previewCursor, state, script, generated, events, assigned, ret,
             raised, log, attempts >>
callerVars == << moves, maxMoves >>
gameVars == << tiles, pgVars, callerVars >>

\* the playground as a record
PG ==
  [ f |-> f, swap |-> swap, swapEnabled |-> swapEnabled, current |-> current,
    shadow |-> shadow, preview |-> preview, numPreviews |-> numPreviews,
    previewCursor |-> previewCursor, state |-> state, script |-> script,
    generated |-> generated, events |-> events, assigned |-> assigned, ret |-> ret,
    raised |-> raised, log |-> log, attempts |-> attempts ]

\* the playground at the start of a call
Begin == [PG EXCEPT !.events = << >>, !.assigned = << >>, !.ret = FALSE, !.raised = ""]

\* the playground is pg
IsPG(pg) ==
  /\ f = pg.f /\ swap = pg.swap /\ swapEnabled = pg.swapEnabled
  /\ current = pg.current /\ shadow = pg.shadow /\ preview = pg.preview
  /\ numPreviews = pg.numPreviews /\ previewCursor = pg.previewCursor
  /\ state = pg.state /\ script = pg.script /\ generated = pg.generated
  /\ events = pg.events /\ assigned = pg.assigned /\ ret = pg.ret
  /\ raised = pg.raised /\ log = pg.log /\ attempts = pg.attempts

\* the playground becomes pg
SetPG(pg) ==
  /\ f' = pg.f /\ swap' = pg.swap /\ swapEnabled' = pg.swapEnabled
  /\ current' = pg.current /\ shadow' = pg.shadow /\ preview' = pg.preview
  /\ numPreviews' = pg.numPreviews /\ previewCursor' = pg.previewCursor
  /\ state' = pg.state /\ script' = pg.script /\ generated' = pg.generated
  /\ events' = pg.events /\ assigned' = pg.assigned /\ ret' = pg.ret
  /\ raised' = pg.raised /\ log' = pg.log /\ attempts' = pg.attempts

(***************************************************************************)
(* historyRoll.  The generator is a record of its members: history, the    *)
(* deque, oldest entry first; counts, the array, indexed from 0; working,  *)
(* the array `tiles`; numTiles, retryTimes and historySize.  A size_t is   *)
(* kept modulo 2^64 and written as the signed number of its residue class  *)
(* that is nearest 0 (SIZE_MAX is -1), so that `c > 0` of an unsigned c    *)
(* reads c # 0.  The record also keeps what the calls did: initial, the    *)
(* history given to the constructor; accepted, the indices generate() has  *)
(* pushed; and of the last call samples, the values the sampler gave,      *)
(* before, the counts when it began, and ret, the piece returned.          *)
(***************************************************************************)
\* a constructor that leaves the counts of the initial history at 0
historyRoll_uncounted(working, retryTimes, initialHistory, historySize) ==
  [ history |-> SubSeq(initialHistory, 1, historySize),
    counts |-> [i \in 0..(Len(working) - 1) |-> 0],
    working |-> working, numTiles |-> Len(working),
    retryTimes |-> retryTimes, historySize |-> historySize,
    initial |-> SubSeq(initialHistory, 1, historySize), accepted |-> << >>,
    samples |-> << >>, before |-> << >>, ret |-> Null ]

\* historyRoll::historyRoll
historyRoll_historyRoll(working, retryTimes, initialHistory, historySize) ==
  [ history |-> SubSeq(initialHistory, 1, historySize),
    counts |-> [i \in 0..(Len(working) - 1) |->
                 Cardinality({k \in 1..historySize : initialHistory[k] = i})],
    working |-> working, numTiles |-> Len(working),
    retryTimes |-> retryTimes, historySize |-> historySize,
    initial |-> SubSeq(initialHistory, 1, historySize), accepted |-> << >>,
    samples |-> << >>, before |-> << >>, ret |-> Null ]

\* the loop with `i <= retryTimes`: one retry too many
RECURSIVE sampleLoop_oneMore(_, _, _, _)
sampleLoop_oneMore(counts, draws, i, retryTimes) ==
  IF i <= retryTimes /\ counts[draws[i + 1]] # 0
  THEN sampleLoop_oneMore(counts, draws, i + 1, retryTimes)
  ELSE i

\* for(i = 0; i < retryTimes && counts[result] > 0; ++i) result = sampler():
\* draws are the values the sampler gives, in order; the value is the number of
\* retries made, and the result is the draw after them
RECURSIVE sampleLoop(_, _, _, _)
sampleLoop(counts, draws, i, retryTimes) ==
  IF i < retryTimes /\ counts[draws[i + 1]] # 0
  THEN sampleLoop(counts, draws, i + 1, retryTimes)
  ELSE i

\* the end of generate: push_back, counts[result]++, the eviction, pop_front
historyRoll_accept(r, draws, retries) ==
  LET result == draws[retries + 1]
      pushed == Append(r.history, result)
      counted == [r.counts EXCEPT ![result] = @ + 1]
      evicted == IF pushed[1] < r.numTiles
                 THEN [counted EXCEPT ![pushed[1]] = @ - 1]
                 ELSE counted
  IN  [r EXCEPT !.history = Tail(pushed), !.counts = evicted,
                !.accepted = Append(@, result),
                !.samples = SubSeq(draws, 1, retries + 1),
                !.before = r.counts,
                !.ret = r.working[result + 1]]

\* historyRoll::generate
historyRoll_generate(r, draws) ==
  historyRoll_accept(r, draws, sampleLoop(r.counts, draws, 0, r.retryTimes))

(***************************************************************************)
(* The state of the parts driven on their own:                             *)
(*   a caller of the field f with a path finder pfd of its own and an      *)
(*   output path finder out, as the field's tests drive it;                *)
(*   a tilePermutator;                                                     *)
(*   a tileRotationTable buffer handed to createTetrominoRotation;         *)
(*   an eventRegistry; a historyRoll.                                      *)
(***************************************************************************)
VARIABLES
  \* the caller's path finder, its output path finder and its line counter
  pfd, out, clear,
  \* pfd was returned by a successful spawn, or by a successful move, drop or
  \* rotate of such a path finder
  fromSpawn,
  \* the last call: [op, ok, thrown]
  outcome,
  \* the numbers of moves, drops and rotations, of grows and of locks that
  \* succeeded, and of calls that failed or threw
  steps, grows, locks, failures,
  \* tilePermutator: the array given to the constructor, its members series and
  \* pointer, and the values generate() has returned
  input, series, pointer, drawn,
  \* the buffer, the tetromino of the last call and the number of calls
  kick, kickTyp, kickCalls,
  \* an eventRegistry, its subscriptions and the handlers its last dispatch called
  reg,
  \* a historyRoll, with what its last call of generate() sampled and returned
  roll

fieldVars == << pfd, out, clear, fromSpawn, outcome, steps, grows, locks, failures >>
bagVars == << input, series, pointer, drawn >>
kickVars == << kick, kickTyp, kickCalls >>
regVars == << reg >>
rollVars == << roll >>
pgRest == << swap, swapEnabled, current, shadow, preview, numPreviews, previewCursor,
             state, script, generated, events, assigned, ret, raised, log, attempts >>
vars == << gameVars, fieldVars, bagVars, kickVars, regVars, rollVars >>

\* no call made yet
noCall == [op |-> "", ok |-> FALSE, thrown |-> ""]

\* the parts not in use
PlaygroundIdle ==
  /\ IsPG(playground_playground(<< >>, 1))
  /\ moves = 0 /\ maxMoves = 0
FieldIdle ==
  /\ pfd = tilePathFinder_null /\ out = tilePathFinder_null /\ clear = 0
  /\ fromSpawn = FALSE /\ outcome = noCall
  /\ steps = 0 /\ grows = 0 /\ locks = 0 /\ failures = 0
BagIdle == input = << >> /\ series = << >> /\ pointer = 0 /\ drawn = << >>
KickIdle == kick = filledRotationTable(0) /\ kickTyp = Null /\ kickCalls = 0
RegIdle == reg = eventRegistry_eventRegistry
RollIdle == roll = historyRoll_historyRoll(<< >>, 0, << >>, 0)

(***************************************************************************)
(* Bounds: the games played.  A game is a generator script, a number of    *)
(* previews and the number of commands that may change the piece other     *)
(* than by locking it.                                                     *)
(***************************************************************************)
\* the largest number of previews of a short game
MaxPreviews == 2
\* the commands other than hardDrop that may succeed in a short game
MaxMoves == 1
\* the same in the tall game
MaxTallMoves == 0
\* the same in the game played for its swaps
MaxHoldMoves == 2
\* the same in the game of one piece turned on the floor
MaxKickMoves == 3
\* playground's default numPreviews
defaultPreviews == 5

\* what main()'s uninitialised kick buffer may hold: zeroes, or the byte of (1, 1)
KickBytes == {0, tileCoordAt(1, 1)}

\* what the generators of the short games return
ShortScripts ==
  { << >>,
    << tetT, tetI >>,
    << tetT, Null, tetI >>,
    << tetJ, tetL, tetI, tetO >> }

\* a generator whose pieces stack to the top of the field when dropped as they spawn
TallScript ==
  << tetO, tetO, tetO, tetO, tetO, tetO, tetO, tetO, tetO, tetI, tetT, tetT >>

\* a generator of a game long enough to swap a piece out and in again
HoldScript == << tetL, tetI >>

\* a generator of one piece, which a turn on the floor kicks
KickScript == << tetI >>

Games ==
  { [script |-> s, numPreviews |-> n, maxMoves |-> MaxMoves] :
      s \in ShortScripts, n \in 1..MaxPreviews }
  \cup { [script |-> HoldScript, numPreviews |-> 1, maxMoves |-> MaxHoldMoves] }
  \cup { [script |-> TallScript, numPreviews |-> defaultPreviews,
          maxMoves |-> MaxTallMoves] }
  \cup { [script |-> KickScript, numPreviews |-> 1, maxMoves |-> MaxKickMoves] }

Init ==
  \E g \in Games, byte \in KickBytes :
    /\ tiles = mainTiles(byte)
    /\ IsPG(playground_playground(g.script, g.numPreviews))
    /\ moves = 0 /\ maxMoves = g.maxMoves
    /\ FieldIdle /\ BagIdle /\ KickIdle /\ RegIdle /\ RollIdle

(***************************************************************************)
(* The public operations, one action each.                                 *)
(***************************************************************************)
\* a command that returns with the playground pg
Returns(pg) ==
  /\ SetPG(pg)
  /\ UNCHANGED << tiles, moves, maxMoves, fieldVars, bagVars, kickVars, regVars, rollVars >>

\* a command that changes the piece when it succeeds, counted against maxMoves
Command(pg) ==
  /\ pg.ret => moves < maxMoves
  /\ SetPG(pg)
  /\ moves' = IF pg.ret THEN moves + 1 ELSE moves
  /\ UNCHANGED << tiles, maxMoves, fieldVars, bagVars, kickVars, regVars, rollVars >>

\* the numbers of columns main() moves by, and of rows it drops by
MoveSteps == {-10, -1, 1, 10}
DropSteps == {1, fieldHeight}

Start == Returns(playground_start(Begin))
Complete == Returns(playground_complete(Begin))
Move == \E dx \in MoveSteps : Command(playground_move(Begin, dx))
Drop == \E dy \in DropSteps : Command(playground_drop(Begin, dy))
RotateCW == Command(playground_rotateCW(Begin))
RotateCCW == Command(playground_rotateCCW(Begin))
HalfTurn == Command(playground_halfTurn(Begin))
HardDrop == Returns(playground_hardDrop(Begin))
SwapTile == Command(playground_swapTile(Begin))

Next ==
  \/ Start \/ Complete \/ Move \/ Drop \/ RotateCW \/ RotateCCW \/ HalfTurn
  \/ HardDrop \/ SwapTile

Spec == Init /\ [][Next]_vars

(***************************************************************************)
(* Properties of the playground.                                           *)
(***************************************************************************)
\* the number of events of a kind dispatched since construction
dispatched(kind) == Cardinality({i \in 1..Len(log) : log[i][1] = kind})

\* the number of pieces the generator returns before its first nullptr
yielded ==
  IF \E i \in 1..Len(script) : script[i] = Null
  THEN (CHOOSE i \in 1..Len(script) :
          script[i] = Null /\ \A j \in 1..(i - 1) : script[j] # Null) - 1
  ELSE Len(script)

terminalStates == {topOut, exhausted, completed}

\* C1: topOut, exhausted and completed are terminal: no public operation changes
\* the state once it is one of them; and the state leaves notStarted only in
\* start(), whose first assignment to it is inGame.
C1_TerminalStates ==
  [][ /\ state \in terminalStates => state' = state
      /\ state = notStarted /\ state' # notStarted =>
           Start /\ assigned' # << >> /\ assigned'[1] = inGame ]_vars

\* an operation has returned without an event in a game that topped out
C1_Witness == state = topOut /\ events = << >>

\* a swap has been made since the last lock
swappedSinceLock ==
  \E i \in 1..Len(log) :
    /\ log[i][1] = tileSwapEvent
    /\ \A j \in (i + 1)..Len(log) : log[j][1] # tileLockEvent

\* C2: after a successful swapTile, whether the hold slot was empty or not,
\* isSwapEnabled() is false and swapTile returns false until the next lock.
C2_SwapDisabledUntilLock ==
  [][ /\ swappedSinceLock' => ~swapEnabled'
      /\ swappedSinceLock /\ SwapTile => ~ret' ]_vars

\* the six rows of the field from row y, packed as a path finder caches them
cachedWindow(fld, y) ==
  UNION { {numColumns * k + c : c \in field_compactRowAt(fld, y + k)} :
            k \in 0..(windowRows - 1) }

\* a path finder of a piece, stamped and cached for the field as it is now
upToDate(finder) ==
  /\ finder.typ # Null
  /\ finder.version = f.version
  /\ finder.current = cachedWindow(f, finder.state.y)

\* C3: when a public operation has returned with the game in progress, current
\* and shadow both have a piece, the field's version and a window that equals the
\* field's rows y .. y+5.
C3_PathFindersUpToDate == state = inGame => upToDate(current) /\ upToDate(shadow)

\* C7: when the generator returns k pieces and then nullptr, k at most the number
\* of previews, and no swap is made: no tileSpawn names a null type, no more than k
\* pieces spawn, and gameEnd(exhausted) is dispatched once, by the (k+1)-th call
\* of spawnNextTile, after k pieces have spawned.
C7_ExhaustedAfterK ==
  yielded <= numPreviews /\ dispatched(tileSwapEvent) = 0 =>
    /\ \A i \in 1..Len(log) : log[i][1] = tileSpawnEvent => log[i][2] # Null
    /\ attempts <= yielded + 1
    /\ attempts <= yielded =>
         /\ dispatched(tileSpawnEvent) = attempts
         /\ << gameEndEvent, exhausted >> \notin {log[i] : i \in 1..Len(log)}
    /\ attempts = yielded + 1 =>
         /\ dispatched(tileSpawnEvent) = yielded
         /\ state = exhausted
         /\ Cardinality({i \in 1..Len(log) : log[i] = << gameEndEvent, exhausted >>}) = 1
         /\ log[Len(log)] = << gameEndEvent, exhausted >>

\* a game of two pieces has been played to exhaustion without a swap
C7_Witness ==
  /\ yielded = 2 /\ yielded <= numPreviews /\ dispatched(tileSwapEvent) = 0
  /\ state = exhausted /\ dispatched(tileLockEvent) = 2

\* the number of occupied cells of a field
occupied(fld) ==
  Cardinality({<< y, c >> \in (1..Len(fld.fields)) \X solidRow : fld.fields[y][c] # 0})

MaxSteps == 1
\* the grows of a run, after those that built the field it starts with
MaxGrows == 1
\* the successful locks of a run
MaxLocks == 1
\* the height of the well the caller may start in
wellHeight == 18

\* garbage rows: a well over columns 3..6, a slot over columns 4..5, a row
\* without a hole, a row whose only hole is column 0, and a row whose only block
\* is column 8
wellRow == [c \in solidRow |-> IF c \in 3..6 THEN 0 ELSE 1]
slotRow == [c \in solidRow |-> IF c \in 4..5 THEN 0 ELSE 1]
fullRow == [c \in solidRow |-> 1]
holeRow == [c \in solidRow |-> IF c = 0 THEN 0 ELSE 1]
pillarRow == [c \in solidRow |-> IF c = 8 THEN 1 ELSE 0]
GrowRows == {wellRow, holeRow}

\* n calls of grow with the same row
RECURSIVE grown(_, _, _)
grown(fld, row, n) == IF n = 0 THEN fld ELSE grown(field_grow(fld, row), row, n - 1)

\* a well of the height given: the well ends in a slot two rows deep, and the
\* bottom row has no hole
wellField ==
  grown(grown(grown(field_field, wellRow, wellHeight - 3), slotRow, 2), fullRow, 1)

\* garbage up to the spawn rows, which grow has pushed under a pillar in column 8
pillarField ==
  grown(grown(field_field, pillarRow, fieldHeight + 2 - spawnRow), holeRow, spawnRow)

\* the fields a run starts with: empty, a deep well, garbage up to the spawn rows
\* with a pillar beside them, and garbage into the spawn rows
StartFields ==
  {field_field, wellField, pillarField, grown(field_field, holeRow, fieldHeight)}

\* what the caller's line counter holds when it was left over from other use
StaleCount == 3

\* the field and the line counter a run starts with: the counter is 0, and in one
\* run with garbage into the spawn rows it is left over
StartCallers ==
  (StartFields \X {0}) \cup {<< grown(field_field, holeRow, fieldHeight), StaleCount >>}

InitField ==
  /\ \E byte \in KickBytes : tiles = mainTiles(byte)
  /\ \E start \in StartCallers : f = start[1] /\ clear = start[2]
  /\ swap = Null /\ swapEnabled = TRUE
  /\ current = tilePathFinder_null /\ shadow = tilePathFinder_null
  /\ preview = << >> /\ numPreviews = 0 /\ previewCursor = 0
  /\ state = notStarted /\ script = << >> /\ generated = 0
  /\ events = << >> /\ assigned = << >> /\ ret = FALSE /\ raised = ""
  /\ log = << >> /\ attempts = 0
  /\ moves = 0 /\ maxMoves = 0
  /\ pfd = tilePathFinder_null /\ out = tilePathFinder_null
  /\ fromSpawn = FALSE /\ outcome = noCall
  /\ steps = 0 /\ grows = 0 /\ locks = 0 /\ failures = 0
  /\ BagIdle /\ KickIdle /\ RegIdle /\ RollIdle

\* the caller is there to make a call: it stops at the first call that fails or
\* throws
alive == outcome.thrown # "null dereference" /\ failures = 0

\* the count of the calls that failed or threw, after a call that answered ok
failed(ok) == failures' = IF ok THEN failures ELSE failures + 1

\* what a call leaves alone besides the caller's own variables
fieldFrame == UNCHANGED << tiles, pgRest, callerVars, bagVars, kickVars, regVars, rollVars >>

\* pfd = tilePathFinder(typ), before any other call
FNew ==
  \E typ \in Tetromino :
    /\ outcome = noCall
    /\ pfd' = tilePathFinder_of(typ)
    /\ fromSpawn' = FALSE
    /\ outcome' = [op |-> "new", ok |-> TRUE, thrown |-> ""]
    /\ UNCHANGED << f, out, clear, steps, grows, locks, failures >>
    /\ fieldFrame

\* f.spawn(pfd)
FSpawn ==
  LET answer == field_spawn(f, pfd)
  IN  /\ alive
      /\ pfd' = answer.result
      /\ fromSpawn' = answer.ok
      /\ outcome' = [op |-> "spawn", ok |-> answer.ok, thrown |-> answer.thrown]
      /\ failed(answer.ok)
      /\ UNCHANGED << f, out, clear, steps, grows, locks >>
      /\ fieldFrame

\* the end of f.move, f.drop and f.rotate(pfd, ..., out)
Answered(op, answer) ==
  /\ alive
  /\ answer.ok => steps < MaxSteps
  /\ out' = answer.result
  /\ pfd' = IF answer.ok /\ fromSpawn THEN answer.result ELSE pfd
  /\ steps' = IF answer.ok THEN steps + 1 ELSE steps
  /\ outcome' = [op |-> op, ok |-> answer.ok, thrown |-> answer.thrown]
  /\ failed(answer.ok)
  /\ UNCHANGED << f, clear, fromSpawn, grows, locks >>
  /\ fieldFrame

\* the numbers of columns a caller of the field moves by: those of main(), none,
\* and two
FieldMoveSteps == MoveSteps \cup {0, 2}

FMove == \E n \in FieldMoveSteps : Answered("move", field_move(f, pfd, n, out))
FDrop == \E n \in DropSteps : Answered("drop", field_drop(f, pfd, n, out))
FRotate == \E dir \in 0..3 : Answered("rotate", field_rotate(f, pfd, dir, out))

\* the call before was a spawn that returned false
spawnRefused ==
  /\ failures = 1 /\ outcome.op = "spawn" /\ ~outcome.ok /\ outcome.thrown = ""

\* f.lock(pfd, clear), which a caller may also try with the piece spawn refused
FLock ==
  LET answer == field_lock(f, pfd, clear)
  IN  /\ alive \/ spawnRefused
      /\ answer.ok => locks < MaxLocks
      /\ f' = answer.f
      /\ clear' = answer.clear
      /\ locks' = IF answer.ok THEN locks + 1 ELSE locks
      /\ outcome' = [op |-> "lock", ok |-> answer.ok, thrown |-> answer.thrown]
      /\ failed(answer.ok)
      /\ UNCHANGED << pfd, out, fromSpawn, steps, grows >>
      /\ fieldFrame

\* f.grow(row)
FGrow ==
  \E row \in GrowRows :
    /\ alive
    /\ grows < MaxGrows
    /\ f' = field_grow(f, row)
    /\ grows' = grows + 1
    /\ outcome' = [op |-> "grow", ok |-> TRUE, thrown |-> ""]
    /\ UNCHANGED << pfd, out, clear, fromSpawn, steps, locks, failures >>
    /\ fieldFrame

NextField == FNew \/ FSpawn \/ FMove \/ FDrop \/ FRotate \/ FLock \/ FGrow

SpecField == InitField /\ [][NextField]_vars

(***************************************************************************)
(* Properties of the field.                                                *)
(***************************************************************************)
\* the cells a path finder's piece covers, << column, row >>, from the bitmap of
\* its orientation (row 0 of a bitmap is the top row of the 6x6 frame)
cellsOf(finder) ==
  { << finder.state.x + x, finder.state.y + y >> :
      << x, y >> \in { c \in (0..5) \X (0..5) :
        tetrominoBitmap(finder.typ)[finder.state.dir + 1][5 - c[2] + 1][c[1] + 1] # 0 } }

\* every cell of the piece is inside the walls, above the floor and empty
collisionFree(finder) ==
  \A c \in cellsOf(finder) :
    /\ c[1] \in solidRow
    /\ c[2] >= 0
    /\ c[2] < Len(f.fields) => f.fields[c[2] + 1][c[1]] = 0

pathOps == {"move", "drop", "rotate"}

\* C5 as claimed: when spawn, move, drop or rotate returns false, the output path
\* finder (for spawn, the one passed in) has a null tile pointer and version 0.
C5_FalseLeavesNull ==
  outcome.op \in pathOps \cup {"spawn"} /\ ~outcome.ok /\ outcome.thrown = "" =>
    LET output == IF outcome.op = "spawn" THEN pfd ELSE out
    IN  output.typ = Null /\ output.version = 0

\* C5 as amended: when move, drop or rotate returns false the output path finder
\* is the null one; when spawn returns false the path finder passed in keeps its
\* tile pointer, its state and its version, and its window is that of the field.
C5_FalseLeavesNullButSpawn ==
  [][ ~outcome'.ok /\ outcome'.thrown = "" =>
        /\ outcome'.op \in pathOps => out' = tilePathFinder_null
        /\ outcome'.op = "spawn" =>
             /\ pfd'.typ = pfd.typ /\ pfd'.typ # Null
             /\ pfd'.state = pfd.state /\ pfd'.version = pfd.version
             /\ pfd'.current = cachedWindow(f, pfd.state.y) ]_vars

\* a spawn has returned false and left the piece in the path finder
C5_Witness ==
  /\ ~outcome.ok /\ outcome.thrown = ""
  /\ outcome.op = "spawn" /\ pfd.typ # Null /\ pfd.version = 0

\* stamped for another version of the field than the one it has now
stale(finder) == finder.version # 0 /\ finder.version # f.version

\* C6: move, drop, rotate and lock given a stale path finder throw "mismatched
\* field version" and leave the field, the caller's output path finder and its
\* line counter as they were; given a path finder with version 0 they do not throw
\* it.
C6_StaleRejected ==
  [][ outcome'.op \in pathOps \cup {"lock"} =>
        /\ stale(pfd) =>
             /\ outcome'.thrown = "mismatched field version"
             /\ f' = f /\ out' = out /\ clear' = clear
        /\ pfd.version = 0 => outcome'.thrown # "mismatched field version" ]_vars

\* a path finder made stale has been rejected with a result of an earlier call in
\* the caller's output
C6_Witness ==
  /\ outcome.thrown = "mismatched field version"
  /\ stale(pfd) /\ out.typ # Null /\ out.version # 0

(***************************************************************************)
(* The tile permutator (generator.cpp).  The pieces stand for the pointers *)
(* of the working set; std::shuffle may leave the series in any order.     *)
(***************************************************************************)
MaxBag == 3
MaxDraws == 7

\* the orders std::shuffle can leave a series in
permutate(ser) ==
  { [n \in 1..Len(ser) |-> ser[q[n]]] :
      q \in { q \in [1..Len(ser) -> 1..Len(ser)] :
               \A m, n \in 1..Len(ser) : q[m] = q[n] => m = n } }

\* generate with the restart of the series one entry too far
generate_restartAtOne(ser, ptr, shuffled) ==
  [ result |-> ser[ptr + 1],
    pointer |-> IF ptr + 1 >= Len(ser) THEN 1 % Len(ser) ELSE ptr + 1,
    series |-> IF ptr + 1 >= Len(ser) THEN shuffled ELSE ser ]

\* tilePermutator::generate, `shuffled` the order permutate leaves
tilePermutator_generate(ser, ptr, shuffled) ==
  [ result |-> ser[ptr + 1],
    pointer |-> IF ptr + 1 >= Len(ser) THEN 0 ELSE ptr + 1,
    series |-> IF ptr + 1 >= Len(ser) THEN shuffled ELSE ser ]

\* the working sets given to the constructor
BagInputs == { [n \in 1..size |-> n] : size \in 1..MaxBag }

\* tilePermutator::tilePermutator
InitBag ==
  /\ tiles = mainTiles(0)
  /\ f = field_field
  /\ swap = Null /\ swapEnabled = TRUE
  /\ current = tilePathFinder_null /\ shadow = tilePathFinder_null
  /\ preview = << >> /\ numPreviews = 0 /\ previewCursor = 0
  /\ state = notStarted /\ script = << >> /\ generated = 0
  /\ events = << >> /\ assigned = << >> /\ ret = FALSE /\ raised = ""
  /\ log = << >> /\ attempts = 0
  /\ moves = 0 /\ maxMoves = 0
  /\ FieldIdle /\ KickIdle /\ RegIdle /\ RollIdle
  /\ input \in BagInputs
  /\ series \in permutate(input)
  /\ pointer = 0
  /\ drawn = << >>

Generate ==
  /\ Len(drawn) < MaxDraws
  /\ \E shuffled \in permutate(series) :
       LET g == tilePermutator_generate(series, pointer, shuffled)
       IN  /\ drawn' = Append(drawn, g.result)
           /\ pointer' = g.pointer
           /\ series' = g.series
  /\ UNCHANGED << input, gameVars, fieldVars, kickVars, regVars, rollVars >>

NextBag == Generate

SpecBag == InitBag /\ [][NextBag]_vars

\* how many times a piece is in a sequence
occurrences(seq, piece) == Cardinality({ n \in 1..Len(seq) : seq[n] = piece })

\* draws number j*N+1 .. (j+1)*N
round(j) == SubSeq(drawn, j * Len(input) + 1, (j + 1) * Len(input))

\* C8: for every j >= 0, draws j*N+1 .. (j+1)*N of the permutator contain each of
\* the N entries of its working set exactly once, whatever the shuffles produce.
C8_EachRoundIsTheBag ==
  \A j \in 0..MaxDraws :
    (j + 1) * Len(input) <= Len(drawn) =>
      \A piece \in Tetromino : occurrences(round(j), piece) = occurrences(input, piece)

\* two rounds of a bag of three have been drawn in different orders
C8_Witness ==
  /\ Len(input) = 3 /\ Len(drawn) >= 6
  /\ round(0) # round(1)

(***************************************************************************)
(* createTetrominoRotation on the buffer of main's loop: `kick` is declared *)
(* without an initialiser, so it starts with any content, and each pass    *)
(* of the loop finds what the pass before has left.                        *)
(***************************************************************************)
\* the passes of main's loop
MaxKickCalls == 7

\* contents of the uninitialised buffer
KickGarbage == {0, tileCoordAt(1, 1), tileCoordAt(-1, 0), tileCoordAt(0, 2)}

InitKick ==
  /\ tiles = mainTiles(0)
  /\ f = field_field
  /\ swap = Null /\ swapEnabled = TRUE
  /\ current = tilePathFinder_null /\ shadow = tilePathFinder_null
  /\ preview = << >> /\ numPreviews = 0 /\ previewCursor = 0
  /\ state = notStarted /\ script = << >> /\ generated = 0
  /\ events = << >> /\ assigned = << >> /\ ret = FALSE /\ raised = ""
  /\ log = << >> /\ attempts = 0
  /\ moves = 0 /\ maxMoves = 0
  /\ FieldIdle /\ BagIdle /\ RegIdle /\ RollIdle
  /\ \E byte \in KickGarbage : kick = filledRotationTable(byte)
  /\ kickTyp = Null
  /\ kickCalls = 0

CreateRotation ==
  /\ kickCalls < MaxKickCalls
  /\ \E typ \in Tetromino :
       /\ kick' = createTetrominoRotation(kick, typ)
       /\ kickTyp' = typ
  /\ kickCalls' = kickCalls + 1
  /\ UNCHANGED << gameVars, fieldVars, bagVars, regVars, rollVars >>

NextKick == CreateRotation

SpecKick == InitKick /\ [][NextKick]_vars

\* the entries of the list (i, j) before its first zero
populated(i, j) == { k \in kickSlots : \A m \in 0..k : kick[i][j][m] # 0 }

\* C9: in the table createTetrominoRotation has produced, for every ordered
\* orientation pair (i, j) and every populated entry k of the list (i, j),
\* kick(i->j)[k] is kick(j->i)[k] with dx and dy negated.
C9_KicksNegated ==
  kickTyp # Null =>
    \A i, j \in 0..3 : \A k \in populated(i, j) :
      kick[i][j][k] = coordNegate(kick[j][i][k])

\* (i, j) is a quarter turn, one way or the other
quarterTurn(i, j) == (j - i) % 4 \in {1, 3}

\* C32: in the table createTetrominoRotation has produced, whatever the buffer
\* held before, every list ends with a zero right after the entries the function
\* populates: four for the quarter turns of J, L, S, Z, T and I, both ways, and
\* none for the half turns, the pairs (i, i) and the O.
C32_KickListsTerminated ==
  kickTyp # Null =>
    \A i, j \in 0..3 :
      Cardinality(populated(i, j)) =
        IF kickTyp # tetO /\ quarterTurn(i, j) THEN 4 ELSE 0

(***************************************************************************)
(* Properties of the playground: the end of the game and the calls that do *)
(* nothing.                                                                *)
(***************************************************************************)
\* a gameEnd has been dispatched since construction
gameEnded == dispatched(gameEndEvent) > 0

\* C11: at most one gameEnd is ever dispatched; it is the last event of its call,
\* its endState is the state the playground has, a terminal one; and a call made
\* after it dispatches no event of any kind.
C11_GameEndIsLast ==
  [][ /\ \A i \in 1..Len(events') :
           events'[i].event.kind = gameEndEvent =>
             /\ i = Len(events')
             /\ events'[i].event.endState = state'
             /\ state' \in terminalStates
      /\ gameEnded => events' = << >> /\ state' = state
      /\ dispatched(gameEndEvent)' <= 1 ]_vars

\* a call has been made after gameEnd(completed)
C11_Witness ==
  /\ dispatched(gameEndEvent) = 1 /\ state = completed
  /\ log[Len(log)] = << gameEndEvent, completed >>
  /\ events = << >>

\* the piece typ placed at st covers a cell of the field fld that is occupied
overlaps(fld, typ, st) ==
  \E c \in cellsOf([typ |-> typ, state |-> st]) :
    c[1] \in solidRow /\ c[2] \in 0..(Len(fld.fields) - 1) /\ fld.fields[c[2] + 1][c[1]] # 0

\* the event is the tileSpawn of a piece at its spawn placement, over blocks or not
spawnsAtStart(e) ==
  /\ e.event.kind = tileSpawnEvent
  /\ e.event.type # Null
  /\ e.event.location = tile_initTileState(e.event.type)

\* C12: when the piece being spawned overlaps blocks at its spawn placement, the
\* call ends with state topOut, its only tileSpawn, for that piece at that
\* placement, is followed by gameEnd(topOut) and nothing else, and current has
\* the piece's type and spawn placement; the game tops out in no other way.
C12_TopOutOnFailedSpawn ==
  [][ LET n == Len(events')
          spawns == { i \in 1..n : events'[i].event.kind = tileSpawnEvent }
      IN  /\ \A i \in spawns :
               overlaps(f', events'[i].event.type, events'[i].event.location) =>
                 state' = topOut
          /\ state' = topOut /\ state # topOut =>
               /\ n >= 2 /\ spawns = {n - 1}
               /\ spawnsAtStart(events'[n - 1])
               /\ overlaps(f', events'[n - 1].event.type, events'[n - 1].event.location)
               /\ events'[n - 1].state = topOut
               /\ events'[n].event.kind = gameEndEvent
               /\ events'[n].event.endState = topOut
               /\ current'.typ = events'[n - 1].event.type
               /\ current'.state = events'[n - 1].event.location ]_vars

\* a hard drop has locked a piece under the spawn rows and the next has topped out
C12_Witness ==
  /\ state = topOut /\ Len(events) >= 3
  /\ events[Len(events)].event.kind = gameEndEvent
  /\ events[Len(events) - 2].event.kind = tileLockEvent

\* a call of move, drop, rotateCW, rotateCCW, halfTurn, hardDrop or swapTile
PieceCommand ==
  Move \/ Drop \/ RotateCW \/ RotateCCW \/ HalfTurn \/ HardDrop \/ SwapTile

\* the call has changed nothing of the playground and has not called the generator
playgroundUntouched ==
  UNCHANGED << f, current, shadow, swap, swapEnabled, preview, numPreviews,
               previewCursor, state, generated, log, attempts >>

\* C13: when the state is not inGame, move, drop, rotateCW, rotateCCW, halfTurn,
\* hardDrop and swapTile return false, dispatch no event, leave the state, the
\* field, current, shadow, the hold piece, the swap flag, the previews and their
\* cursor as they were and make no call of the generator.
C13_RejectedOffGame ==
  [][ state # inGame /\ PieceCommand =>
        /\ ~ret' /\ raised' = ""
        /\ events' = << >> /\ assigned' = << >>
        /\ playgroundUntouched ]_vars

\* a command has returned false after the generator ran out with pieces locked
C13_Witness ==
  /\ state = exhausted /\ events = << >> /\ ~ret
  /\ dispatched(tileLockEvent) > 0 /\ f.fields # << >>

\* the piece typ placed at st is inside the walls, above the floor and on empty
\* cells of the field fld
placeable(fld, typ, st) ==
  \A c \in cellsOf([typ |-> typ, state |-> st]) :
    /\ c[1] \in solidRow
    /\ c[2] >= 0
    /\ c[2] < Len(fld.fields) => fld.fields[c[2] + 1][c[1]] = 0

\* current cannot go one column the way of movement
illegalMove(movement) ==
  ~placeable(f, current.typ,
     [current.state EXCEPT !.x = IF movement > 0 THEN @ + 1 ELSE @ - 1])

\* current cannot go one row down
restsOnGround == ~placeable(f, current.typ, [current.state EXCEPT !.y = @ - 1])

\* current can turn to newDir neither in place nor by a kick of its table
illegalTurn(newDir) ==
  LET table == tiles[current.typ].rotateTable[current.state.dir][newDir]
  IN  /\ ~placeable(f, current.typ, [current.state EXCEPT !.dir = newDir])
      /\ \A n \in 1..Len(table) :
           ~placeable(f, current.typ,
              [dir |-> newDir, x |-> current.state.x + coordX(table[n]),
               y |-> current.state.y + coordY(table[n])])

\* the call returns false and has done nothing
rejected ==
  /\ ~ret' /\ raised' = ""
  /\ events' = << >> /\ assigned' = << >>
  /\ playgroundUntouched

\* C14: in a game in progress a move into a wall or a block, a rotation no
\* placement of which is free, a drop of a piece on the ground and a swapTile with
\* the swap disabled return false, raise no error, dispatch no event and leave
\* current, shadow, the field, the hold piece, the swap flag and the previews
\* unchanged.
C14_IllegalIsRejected ==
  [][ state = inGame =>
        /\ \A dx \in MoveSteps :
             illegalMove(dx) /\ Command(playground_move(Begin, dx)) => rejected
        /\ \A dy \in DropSteps :
             restsOnGround /\ Command(playground_drop(Begin, dy)) => rejected
        /\ illegalTurn(tileDirection_rotateCW(current.state.dir)) /\ RotateCW => rejected
        /\ illegalTurn(tileDirection_rotateCCW(current.state.dir)) /\ RotateCCW => rejected
        /\ illegalTurn(tileDirection_halfTurn(current.state.dir)) /\ HalfTurn => rejected
        /\ ~swapEnabled /\ SwapTile => rejected ]_vars

\* a call has returned false in a game in progress with the swap disabled
C14_Witness ==
  /\ state = inGame /\ ~swapEnabled /\ swap # Null
  /\ ~ret /\ raised = "" /\ events = << >>

\* the head of the preview queue
previewHead == preview[previewCursor]

C16_RestartThrows ==
  [][ state # notStarted /\ Start => raised' # "" ]_vars

\* C17: complete() in a game in progress sets the state to completed, dispatches
\* exactly one event, gameEnd(completed), and leaves current, shadow, the field,
\* the hold piece, the swap flag and the preview queue as they were; in any other
\* state it changes nothing and dispatches nothing.
C17_CompleteOnlyEndsTheGame ==
  [][ Complete =>
        IF state = inGame
        THEN /\ state' = completed /\ assigned' = << completed >>
             /\ Len(events') = 1
             /\ events'[1].event.kind = gameEndEvent
             /\ events'[1].event.endState = completed
             /\ events'[1].state = completed
             /\ raised' = ""
             /\ UNCHANGED << current, shadow, f, swap, swapEnabled, preview,
                             previewCursor, numPreviews, generated, attempts >>
        ELSE /\ events' = << >> /\ assigned' = << >> /\ raised' = ""
             /\ playgroundUntouched ]_vars

\* complete() has just ended a game whose piece is still in the field
C17_Witness ==
  /\ state = completed /\ assigned = << completed >>
  /\ Len(events) = 1 /\ events[1].event.kind = gameEndEvent
  /\ current.typ # Null /\ shadow.typ # Null
  /\ dispatched(tileLockEvent) > 0

\* the indices of the spawn events of the call
spawnEvents(evs) == {i \in 1..Len(evs) : evs[i].event.kind = tileSpawnEvent}

\* C18: a successful swapTile() puts the type of the active piece into the hold
\* slot and dispatches tileSwap before any spawn event. With an empty hold slot it
\* spawns the head of the preview queue, which is consumed and refilled as in a
\* normal spawn; otherwise it spawns the piece held before at the spawn position
\* in the initial orientation, the preview queue is not consumed and the generator
\* is not called. The rows and the version of the field are unchanged.
C18_SwapHoldsAndRespawns ==
  [][ SwapTile /\ ret' =>
        /\ swap' = current.typ
        /\ events'[1].event.kind = tileSwapEvent
        /\ events'[1].event.type = current.typ
        /\ events'[1].event.location = current.state
        /\ events'[1].event.locationShadow = shadow.state
        /\ \A i \in 2..Len(events') : events'[i].event.kind # tileSwapEvent
        /\ f' = f
        /\ IF swap = Null
           THEN /\ attempts' = attempts + 1
                /\ previewHead # Null =>
                     /\ spawnEvents(events') = {2}
                     /\ spawnsAtStart(events'[2])
                     /\ events'[2].event.type = previewHead
                     /\ current'.typ = previewHead
                     /\ previewCursor' = (previewCursor + 1) % numPreviews
                     /\ \A i \in DOMAIN preview :
                          i # previewCursor => preview'[i] = preview[i]
                     /\ generated' \in {generated, generated + 1}
                     /\ generated' = generated => preview'[previewCursor] = Null
                /\ previewHead = Null =>
                     /\ spawnEvents(events') = {}
                     /\ state' = exhausted
           ELSE /\ spawnEvents(events') = {2}
                /\ spawnsAtStart(events'[2])
                /\ events'[2].event.type = swap
                /\ current'.typ = swap
                /\ current'.state = tile_initTileState(swap)
                /\ UNCHANGED << preview, previewCursor, numPreviews, generated,
                                attempts >> ]_vars

\* the piece held has come back into play: a second swap has been made
C18_Witness ==
  /\ ret /\ Len(events) = 2
  /\ events[1].event.kind = tileSwapEvent /\ events[2].event.kind = tileSpawnEvent
  /\ swap = events[1].event.type
  /\ Len(log) >= 4 /\ log[Len(log) - 3][1] = tileSwapEvent
  /\ current.typ = log[Len(log) - 3][2]

(***************************************************************************)
(* Properties of field::lock.                                              *)
(***************************************************************************)
\* the path finder one row lower
lowered(finder) == [finder EXCEPT !.state.y = @ - 1]

\* the path finder caches the rows of the field as they are now
windowOfField(finder) == finder.current = cachedWindow(f, finder.state.y)

\* C19: lock given a path finder whose position is invalid, or which can still
\* drop by one row, returns false, sets the caller's counter to 0 and leaves the
\* field (rows, colours, height, version) as it was.  The path finder is one that
\* is not stale; invalid and able to drop are what isValid and drop answer, and,
\* for a path finder that caches the rows of the field, what the cells say.
C19_LockRefused ==
  [][ outcome'.op = "lock" /\ pfd.typ # Null /\ ~stale(pfd) =>
        LET refused == /\ ~outcome'.ok /\ outcome'.thrown = ""
                       /\ clear' = 0 /\ f' = f
        IN  /\ ~field_isValid(pfd) => refused
            /\ field_drop(f, pfd, 1, tilePathFinder_null).ok => refused
            /\ windowOfField(pfd) /\ ~collisionFree(pfd) => refused
            /\ windowOfField(pfd) /\ collisionFree(lowered(pfd)) => refused ]_vars

\* lock has refused a piece that overlaps the garbage of the field
C19_Witness ==
  /\ outcome.op = "lock" /\ ~outcome.ok /\ outcome.thrown = ""
  /\ pfd.typ # Null /\ ~stale(pfd) /\ windowOfField(pfd) /\ ~collisionFree(pfd)
  /\ Len(f.fields) > 0 /\ clear = 0 /\ failures = 2

\* the rows of the field once the cells of the piece are written, each in the
\* colour of the piece: the rows there are, and empty rows up to the top of the
\* piece
writtenRows(finder) ==
  LET cells == cellsOf(finder)
      top == CHOOSE y \in {c[2] : c \in cells} : \A c \in cells : c[2] <= y
      height == IF top + 1 > Len(f.fields) THEN top + 1 ELSE Len(f.fields)
  IN  [i \in 1..height |->
        IF i - 1 \in {c[2] : c \in cells}
        THEN [c \in solidRow |->
               IF << c, i - 1 >> \in cells THEN finder.typ
               ELSE IF i <= Len(f.fields) THEN f.fields[i][c] ELSE 0]
        ELSE IF i <= Len(f.fields) THEN f.fields[i] ELSE emptyFieldRow]

\* the rows the bounding box of the piece touches
boxRows(finder) ==
  (finder.state.y + coordY(tiles[finder.typ].min[finder.state.dir]))
    ..(finder.state.y + coordY(tiles[finder.typ].max[finder.state.dir]))

\* a row without an empty cell
isFull(row) == \A c \in solidRow : row[c] # 0

\* the rows (0-based) of a vector of rows that are full
fullRows(rows) == {y \in 0..(Len(rows) - 1) : isFull(rows[y + 1])}

\* C20: after a successful lock the caller's counter is the number of the rows
\* touched by the bounding box of the piece that are full once the cells of the
\* piece are written; the field is the written rows without exactly those rows,
\* in their order, so that a full row outside the bounding box stays; the masks
\* are those of the rows, and the version is the next one.
C20_LockClearsBoxRows ==
  [][ outcome'.op = "lock" /\ outcome'.ok =>
        LET written == writtenRows(pfd)
            cleared == fullRows(written) \cap boxRows(pfd)
        IN  /\ clear' = Cardinality(cleared)
            /\ f'.fields = without(written, cleared)
            /\ f'.compactFields =
                 [i \in 1..Len(f'.fields) |-> {c \in solidRow : f'.fields[i][c] # 0}]
            /\ Cardinality(fullRows(f'.fields)) =
                 Cardinality(fullRows(written) \ boxRows(pfd))
            /\ f'.version = f.version + 1 ]_vars

\* a lock has cleared two rows and left a full row below them, with rows above
\* that moved down
C20_Witness ==
  /\ outcome.op = "lock" /\ outcome.ok /\ clear = 2
  /\ fullRows(f.fields) = {0}
  /\ Len(f.fields) = wellHeight - 2 /\ f.fields[2] = wellRow

(***************************************************************************)
(* The test Tile.TSpinMini (playground.cpp), run for every tetromino and   *)
(* every column of the hole of the row it grows: the test itself is the    *)
(* run of tetromino T with the hole in column 0.  steps is the number of   *)
(* statements of the test executed; an ASSERT that fails, or an exception, *)
(* ends the test (failures).                                               *)
(***************************************************************************)
\* a row that is full except for one column
rowWithHole(hole) == [c \in solidRow |-> IF c = hole THEN 0 ELSE 1]

InitTSpin ==
  /\ \E byte \in KickBytes : tiles = mainTiles(byte)
  /\ f = field_field
  /\ swap = Null /\ swapEnabled = TRUE
  /\ current = tilePathFinder_null /\ shadow = tilePathFinder_null
  /\ preview = << >> /\ numPreviews = 0 /\ previewCursor = 0
  /\ state = notStarted /\ script = << >> /\ generated = 0
  /\ events = << >> /\ assigned = << >> /\ ret = FALSE /\ raised = ""
  /\ log = << >> /\ attempts = 0
  /\ moves = 0 /\ maxMoves = 0
  /\ FieldIdle /\ BagIdle /\ KickIdle /\ RegIdle /\ RollIdle

\* the test is at its statement n
testAt(n) == steps = n /\ failures = 0

\* what every statement of the test leaves alone
testFrame == UNCHANGED << tiles, pgRest, callerVars, bagVars, kickVars, regVars, rollVars, grows, locks >>

\* ASSERT_TRUE(f.op(pfd, ..., npfd)); pfd = npfd; ASSERT_EQ(state.x, x);
\* ASSERT_EQ(state.y, y): npfd is a fresh path finder
testMoved(op, answer, x, y) ==
  /\ out' = answer.result
  /\ pfd' = IF answer.ok THEN answer.result ELSE pfd
  /\ outcome' = [op |-> op, ok |-> answer.ok, thrown |-> answer.thrown]
  /\ failures' = IF answer.ok /\ answer.result.state.x = x /\ answer.result.state.y = y
                 THEN 0 ELSE 1
  /\ steps' = steps + 1
  /\ UNCHANGED << f, clear, fromSpawn >>
  /\ testFrame

\* f.grow({0, 1, 1, 1, 1, 1, 1, 1, 1, 1})
TGrow ==
  \E hole \in solidRow :
    /\ testAt(0)
    /\ f' = field_grow(f, rowWithHole(hole))
    /\ outcome' = [op |-> "grow", ok |-> TRUE, thrown |-> ""]
    /\ steps' = steps + 1
    /\ UNCHANGED << pfd, out, clear, fromSpawn, failures >>
    /\ testFrame

\* tile t(data, kick); tilePathFinder pfd(&t): the constructor of the tile may throw
TNew ==
  \E typ \in Tetromino :
    /\ testAt(1)
    /\ pfd' = IF tiles[typ].thrown = "" THEN tilePathFinder_of(typ) ELSE pfd
    /\ outcome' = [op |-> "new", ok |-> tiles[typ].thrown = "", thrown |-> tiles[typ].thrown]
    /\ failures' = IF tiles[typ].thrown = "" THEN 0 ELSE 1
    /\ steps' = steps + 1
    /\ UNCHANGED << f, out, clear, fromSpawn >>
    /\ testFrame

\* ASSERT_TRUE(f.spawn(pfd))
TSpawn ==
  LET answer == field_spawn(f, pfd)
  IN  /\ testAt(2)
      /\ pfd' = answer.result
      /\ fromSpawn' = answer.ok
      /\ outcome' = [op |-> "spawn", ok |-> answer.ok, thrown |-> answer.thrown]
      /\ failures' = IF answer.ok THEN 0 ELSE 1
      /\ steps' = steps + 1
      /\ UNCHANGED << f, out, clear >>
      /\ testFrame

\* ASSERT_TRUE(f.drop(pfd, 20, npfd)); ... ASSERT_EQ(state.x, +2); ASSERT_EQ(state.y, -1)
TDrop ==
  /\ testAt(3)
  /\ testMoved("drop", field_drop(f, pfd, 20, tilePathFinder_null), 2, -1)

\* ASSERT_FALSE(f.drop(pfd, 20, npfd))
TDropAgain ==
  LET answer == field_drop(f, pfd, 20, tilePathFinder_null)
  IN  /\ testAt(4)
      /\ out' = answer.result
      /\ outcome' = [op |-> "drop", ok |-> answer.ok, thrown |-> answer.thrown]
      /\ failures' = IF ~answer.ok /\ answer.thrown = "" THEN 0 ELSE 1
      /\ steps' = steps + 1
      /\ UNCHANGED << f, pfd, clear, fromSpawn >>
      /\ testFrame

\* ASSERT_TRUE(f.move(pfd, -10, npfd)); ... ASSERT_EQ(state.x, -1); ASSERT_EQ(state.y, -1)
TMove ==
  /\ testAt(5)
  /\ testMoved("move", field_move(f, pfd, -10, tilePathFinder_null), -1, -1)

\* ASSERT_TRUE(f.rotate(pfd, enumTileDirection::right, npfd)); ...
\* ASSERT_EQ(state.x, -2); ASSERT_EQ(state.y, -1)
TRotate ==
  /\ testAt(6)
  /\ testMoved("rotate", field_rotate(f, pfd, dirRight, tilePathFinder_null), -2, -1)

\* uint8_t clear = 0; ASSERT_TRUE(f.lock(pfd, clear)); ASSERT_EQ(clear, 1);
\* ASSERT_EQ(f.compactRowAt(0), 3); ASSERT_EQ(f.compactRowAt(1), 1)
TLock ==
  LET answer == field_lock(f, pfd, 0)
  IN  /\ testAt(7)
      /\ f' = answer.f
      /\ clear' = answer.clear
      /\ outcome' = [op |-> "lock", ok |-> answer.ok, thrown |-> answer.thrown]
      /\ failures' = IF /\ answer.ok /\ answer.clear = 1
                        /\ MaskOf(field_compactRowAt(answer.f, 0)) = 3
                        /\ MaskOf(field_compactRowAt(answer.f, 1)) = 1
                     THEN 0 ELSE 1
      /\ steps' = steps + 1
      /\ UNCHANGED << pfd, out, fromSpawn >>
      /\ testFrame

NextTSpin ==
  TGrow \/ TNew \/ TSpawn \/ TDrop \/ TDropAgain \/ TMove \/ TRotate \/ TLock

SpecTSpin == InitTSpin /\ [][NextTSpin]_vars

\* the run is the test as written: the T piece over the row with its hole in
\* column 0
isTSpinMini ==
  /\ steps >= 2 /\ pfd.typ = tetT
  /\ IF outcome.op = "lock" /\ outcome.ok
     THEN TRUE
     ELSE Len(f.fields) = 1 /\ f.fields[1] = rowWithHole(0)

\* C21: on a field whose only row is full except column 0, a T piece (a tile the
\* constructor has built) spawns;
\* drop(20) rests it at (2, -1) and a further drop fails; move(-10) puts it at
\* (-1, -1); the rotation to the right succeeds through a wall kick and ends at
\* (-2, -1); lock succeeds with 1 row cleared, after which row 0 has mask 3 and
\* row 1 has mask 1.
C21_TSpinMini ==
  isTSpinMini =>
    /\ failures = 0
    /\ steps >= 3 => fromSpawn /\ pfd.version = 2
    /\ steps = 4 => outcome.ok /\ pfd.state = [dir |-> dirInitial, x |-> 2, y |-> -1]
    /\ steps = 5 => ~outcome.ok /\ outcome.thrown = "" /\ out = tilePathFinder_null
    /\ steps = 6 => outcome.ok /\ pfd.state = [dir |-> dirInitial, x |-> -1, y |-> -1]
    /\ steps >= 7 =>
         /\ pfd.state = [dir |-> dirRight, x |-> -2, y |-> -1]
         /\ pfd.previousWallKick
    /\ steps = 7 => outcome.ok
    /\ steps = 8 =>
         /\ outcome.op = "lock" /\ outcome.ok /\ clear = 1
         /\ f.compactFields = << {0, 1}, {0} >>
         /\ f.fields = << [c \in solidRow |-> IF c \in {0, 1} THEN tetT ELSE 0],
                          [c \in solidRow |-> IF c = 0 THEN tetT ELSE 0] >>
         /\ f.version = 3

\* the test has run to its end
C21_Witness ==
  /\ steps = 8 /\ failures = 0 /\ pfd.typ = tetT
  /\ outcome.op = "lock" /\ outcome.ok /\ clear = 1 /\ Len(f.fields) = 2

(***************************************************************************)
(* Properties of the tile constructor.                                     *)
(***************************************************************************)
\* the offsets << x, y >> of the occupied cells of an orientation in its 6x6
\* frame, from the bitmap (row 0 of the bitmap is y = 5)
offsetsOf(typ, dir) ==
  { c \in (0..5) \X (0..5) : tetrominoBitmap(typ)[dir + 1][5 - c[2] + 1][c[1] + 1] # 0 }

\* C22: for every tetromino and each of its four orientations, the bounding box
\* the tile constructor has computed contains the offset of every occupied cell,
\* and each of its four bounds is the coordinate of an occupied cell.
C22_BoundingBoxTight ==
  \A typ \in Tetromino, dir \in 0..3 :
    LET vmin == tiles[typ].min[dir]
        vmax == tiles[typ].max[dir]
        cells == offsetsOf(typ, dir)
    IN  /\ \A c \in cells : /\ coordX(vmin) <= c[1] /\ c[1] <= coordX(vmax)
                             /\ coordY(vmin) <= c[2] /\ c[2] <= coordY(vmax)
        /\ \E c \in cells : c[1] = coordX(vmin)
        /\ \E c \in cells : c[1] = coordX(vmax)
        /\ \E c \in cells : c[2] = coordY(vmin)
        /\ \E c \in cells : c[2] = coordY(vmax)

\* the constructor has built a tile whose box is three rows high in the
\* orientation to the right, and a path finder points to it
C22_Witness ==
  /\ steps >= 2 /\ pfd.typ # Null
  /\ coordY(tiles[pfd.typ].max[dirRight]) = coordY(tiles[pfd.typ].min[dirRight]) + 2
  /\ coordX(tiles[pfd.typ].max[dirRight]) = coordX(tiles[pfd.typ].min[dirRight]) + 1

(***************************************************************************)
(* Properties of the preview queue and the generator.                      *)
(***************************************************************************)
\* what the k-th call of generate() returned
returned(k) == IF k <= Len(script) THEN script[k] ELSE Null

\* the slot of the preview queue filled last: the one before the cursor
lastFilled == preview[(previewCursor + numPreviews - 1) % numPreviews]

\* C23 as claimed: once generate() has returned the sentinel, the playground
\* never calls it again, in its constructor or on a spawn: the first call that
\* returned the sentinel is the last call made.
C23_NoCallAfterSentinel ==
  \A k \in 1..generated : returned(k) = Null => k = generated

\* C23 as amended: the constructor calls generate() once per preview, whatever
\* it returns.  After that generate() is called only by a spawn that refills the
\* slot it vacates, once, and only when the slot filled last does not hold the
\* sentinel; when it does, no call is made, the slot vacated gets the sentinel,
\* and so it is ever after.
C23_NoRefillAfterSentinel ==
  /\ [](state = notStarted => generated = numPreviews)
  /\ [][ /\ generated' # generated =>
               /\ generated' = generated + 1
               /\ attempts' = attempts + 1
               /\ lastFilled # Null
               /\ lastFilled' = returned(generated')
         /\ lastFilled = Null =>
               /\ generated' = generated
               /\ lastFilled' = Null
               /\ previewCursor' # previewCursor => preview'[previewCursor] = Null ]_vars

\* a spawn has refilled its slot with the sentinel without a call of generate()
C23_Witness ==
  /\ state = inGame /\ attempts = 2 /\ numPreviews = 2
  /\ generated = numPreviews + 1 /\ returned(generated) = Null
  /\ preview = [i \in 0..1 |-> Null]

(***************************************************************************)
(* The event registry: a caller that subscribes handlers, moves and        *)
(* destroys the subscriptions it holds, has events dispatched and in the   *)
(* end destroys the registry.                                              *)
(***************************************************************************)
\* the subscriptions a run makes, by subscribe and by move
MaxSubs == 3
\* the dispatches of a run
MaxDispatches == 2
\* the handlers there are
Handlers == {1, 2}

\* the temporary of subscribe
temporary == MaxSubs + 1

InitEvent ==
  /\ tiles = mainTiles(0)
  /\ f = field_field
  /\ swap = Null /\ swapEnabled = TRUE
  /\ current = tilePathFinder_null /\ shadow = tilePathFinder_null
  /\ preview = << >> /\ numPreviews = 0 /\ previewCursor = 0
  /\ state = notStarted /\ script = << >> /\ generated = 0
  /\ events = << >> /\ assigned = << >> /\ ret = FALSE /\ raised = ""
  /\ log = << >> /\ attempts = 0
  /\ moves = 0 /\ maxMoves = 0
  /\ FieldIdle /\ BagIdle /\ KickIdle /\ RegIdle /\ RollIdle

eventFrame == UNCHANGED << gameVars, fieldVars, bagVars, kickVars, rollVars >>

\* the subscriptions the caller holds
held == DOMAIN reg.subs \ {sentinel}

\* a sequence without its elements equal to id
RECURSIVE dropped(_, _)
dropped(seq, id) ==
  IF seq = << >> THEN << >>
  ELSE IF Head(seq) = id THEN dropped(Tail(seq), id)
  ELSE << Head(seq) >> \o dropped(Tail(seq), id)

\* auto s = registry.subscribe(handler): the temporary is inserted after
\* sentinel.previous, moved into s and destroyed
Subscribe ==
  \E handler \in Handlers :
    LET id == reg.made + 1
        s1 == eventSubscription_insert(reg.subs, temporary,
                                       reg.subs[sentinel].previous, handler)
        s2 == eventSubscription_move(s1, id, temporary)
        s3 == eventSubscription_destroy(s2, temporary)
    IN  /\ reg.alive /\ reg.made < MaxSubs
        /\ reg' = [reg EXCEPT !.subs = s3, !.made = id, !.order = Append(@, id)]
        /\ eventFrame

\* eventSubscription t(std::move(r)) of a subscription r the caller holds
MoveSub ==
  \E r \in held :
    LET id == reg.made + 1
    IN  /\ reg.made < MaxSubs
        /\ reg' = [reg EXCEPT
                     !.subs = eventSubscription_move(reg.subs, id, r),
                     !.made = id,
                     !.order = [i \in DOMAIN @ |-> IF @[i] = r THEN id ELSE @[i]]]
        /\ eventFrame

\* the end of the life of a subscription the caller holds
DestroySub ==
  \E r \in held :
    /\ reg' = [reg EXCEPT !.subs = eventSubscription_destroy(reg.subs, r),
                          !.order = dropped(@, r)]
    /\ eventFrame

\* dispatch(f, event)
Dispatch ==
  /\ reg.alive /\ reg.dispatches < MaxDispatches
  /\ reg' = [reg EXCEPT !.called = eventRegistry_dispatch(reg.subs),
                        !.dispatches = @ + 1]
  /\ eventFrame

\* ~eventRegistry(): dissolveChain, then the destructor of the member sentinel
DestroyRegistry ==
  /\ reg.alive
  /\ reg' = [reg EXCEPT
               !.subs = eventSubscription_destroy(
                          eventSubscription_dissolveChain(reg.subs, sentinel), sentinel),
               !.alive = FALSE, !.order = << >>]
  /\ eventFrame

NextEvent == Subscribe \/ MoveSub \/ DestroySub \/ Dispatch \/ DestroyRegistry

SpecEvent == InitEvent /\ [][NextEvent]_vars

\* the subscriptions in the list of the registry
linked == {n \in DOMAIN reg.subs : reg.subs[n].next # noSub \/ reg.subs[n].previous # noSub}

\* the list is a doubly linked ring through the sentinel and the subscriptions of
\* the history, in their order
isRing ==
  LET ring == << sentinel >> \o reg.order \o << sentinel >>
  IN  /\ linked = {sentinel} \cup {reg.order[i] : i \in DOMAIN reg.order}
      /\ \A i \in 1..(Len(ring) - 1) :
            /\ reg.subs[ring[i]].next = ring[i + 1]
            /\ reg.subs[ring[i + 1]].previous = ring[i]
      /\ \A n \in linked :
            /\ reg.subs[n].next \in linked /\ reg.subs[reg.subs[n].next].previous = n
            /\ reg.subs[n].previous \in linked /\ reg.subs[reg.subs[n].previous].next = n

\* C24: a dispatch calls the handler of every live subscription once, in the
\* order in which the subscriptions were made: a subscription destroyed is not
\* called any more, and one made by move is called in the place of the one it was
\* made from.  While the registry lives its list is a consistent doubly linked
\* ring: n.next.previous = n and n.previous.next = n for every node linked.
C24_DispatchInOrder ==
  /\ [](reg.alive => isRing)
  /\ [][ reg'.dispatches # reg.dispatches =>
           /\ Len(reg'.called) = Len(reg.order)
           /\ \A i \in DOMAIN reg.order :
                 /\ reg.order[i] \in held
                 /\ reg'.called[i] = reg.subs[reg.order[i]].handler ]_vars

\* a dispatch has called two handlers after the first subscription was destroyed
\* and another was moved
C24_Witness ==
  /\ reg.dispatches > 0 /\ reg.made = MaxSubs
  /\ Len(reg.called) = 2 /\ reg.called[1] # reg.called[2]
  /\ reg.order = << 2, 3 >> /\ Cardinality(held) = 2

(***************************************************************************)
(* Properties of field::rotate, field::move and field::drop, for a path    *)
(* finder that is not stale and caches the rows of the field.              *)
(***************************************************************************)
\* the path finder is fit for a call: it has a piece, is not stale and caches the
\* rows of the field
fit(finder) == finder.typ # Null /\ ~stale(finder) /\ windowOfField(finder)

\* the placements rotate tries for the turn of finder to targetDir, in its order:
\* the one in place, then one per entry of the kick list
candidates(finder, targetDir) ==
  LET table == tiles[finder.typ].rotateTable[finder.state.dir][targetDir]
  IN  << [dir |-> targetDir, x |-> finder.state.x, y |-> finder.state.y] >>
      \o [n \in 1..Len(table) |->
            [dir |-> targetDir, x |-> finder.state.x + coordX(table[n]),
             y |-> finder.state.y + coordY(table[n])]]

\* the places in the order of candidates of those that are valid in the field
validAmong(finder, tried) ==
  {n \in 1..Len(tried) : placeable(f, finder.typ, tried[n])}

\* the least of a set of numbers that is not empty
least(numbers) == CHOOSE n \in numbers : \A m \in numbers : n <= m

\* C25: rotate returns the placement in place when it is valid; otherwise the
\* placement of the first entry of the kick list of the turn, in the order of the
\* table, that is valid, and never that of a later entry; it returns false when
\* neither the placement in place nor that of any entry is valid.
C25_FirstValidKick ==
  [][ outcome'.op = "rotate" /\ fit(pfd) =>
        \A targetDir \in 0..3 :
          Answered("rotate", field_rotate(f, pfd, targetDir, out)) =>
            LET tried == candidates(pfd, targetDir)
                valid == validAmong(pfd, tried)
            IN  /\ outcome'.thrown = ""
                /\ outcome'.ok = (valid # {})
                /\ valid = {} => out' = tilePathFinder_null
                /\ valid # {} =>
                     /\ out'.typ = pfd.typ
                     /\ out'.state = tried[least(valid)] ]_vars

\* a rotation has succeeded by a kick that moved the piece up or down in a field
\* with garbage
C25_Witness ==
  /\ outcome = [op |-> "rotate", ok |-> TRUE, thrown |-> ""]
  /\ fromSpawn /\ pfd = out /\ out.previousWallKick /\ Len(f.fields) > 0
  /\ out.state.y # tile_initTileState(out.typ).y

(***************************************************************************)
(* Properties of the tileMove event.                                       *)
(***************************************************************************)
\* the tileMove events of the call that has just returned
moveEvents(evs) ==
  {evs[i].event : i \in {j \in 1..Len(evs) : evs[j].event.kind = tileMoveEvent}}

\* current cannot turn to newDir in place
kickNeeded(newDir) == ~placeable(f, current.typ, [current.state EXCEPT !.dir = newDir])

\* C26: the wallKick flag of a tileMove event is true exactly when the event comes
\* from a rotation the placement in place of which was not valid, resolved by an
\* entry of the kick table; it is false for every horizontal move, every drop, the
\* drop of hardDrop and every rotation in place, whatever brought the piece to the
\* position it leaves.  The event of a rotation is the one whose orientation
\* after differs from the one before: move, drop and hardDrop keep the orientation
\* and rotateCW, rotateCCW and halfTurn change it.
C26_WallKickFlag ==
  [][ state = inGame =>
        \A e \in moveEvents(events') :
          /\ e.before = current.state
          /\ e.wallKick = (e.after.dir # e.before.dir /\ kickNeeded(e.after.dir)) ]_vars

\* a rotation on the floor has been resolved by a kick and its tileMove event has
\* the flag set, in a game with a command left to move the kicked piece on
C26_Witness ==
  /\ state = inGame /\ script = KickScript /\ moves < maxMoves
  /\ ret /\ current.previousWallKick
  /\ \E e \in moveEvents(events) :
       /\ e.wallKick /\ e.before.dir # e.after.dir
       /\ e.after = current.state /\ e.after.y # e.before.y

\* -1, 0 or 1 as n is negative, zero or positive
sign(n) == IF n > 0 THEN 1 ELSE IF n < 0 THEN -1 ELSE 0

\* n without its sign
magnitude(n) == IF n < 0 THEN -n ELSE n

\* the largest d from k up to limit such that every placement of finder moved by
\* k + 1..d columns the way given is inside the walls and on empty cells
RECURSIVE travelFrom(_, _, _, _)
travelFrom(finder, way, k, limit) ==
  IF k < limit /\ placeable(f, finder.typ, [finder.state EXCEPT !.x = @ + way * (k + 1)])
  THEN travelFrom(finder, way, k + 1, limit)
  ELSE k

\* the largest d <= |numSteps| such that every placement of finder moved by 1..d
\* columns the way of numSteps is inside the walls and on empty cells
travel(finder, numSteps) == travelFrom(finder, sign(numSteps), 0, magnitude(numSteps))

\* C27: move returns the placement of the same orientation and y whose x is d
\* columns the way of steps, d the largest number up to |steps| such that every
\* placement on the way is inside columns 0..9 and free of collision; it returns
\* false exactly when d is 0, which it is when steps is 0.
C27_MoveTravels ==
  [][ outcome'.op = "move" /\ fit(pfd) =>
        \A n \in FieldMoveSteps :
          Answered("move", field_move(f, pfd, n, out)) =>
            LET d == travel(pfd, n)
            IN  /\ outcome'.thrown = ""
                /\ outcome'.ok = (d # 0)
                /\ n = 0 => ~outcome'.ok
                /\ d # 0 =>
                     /\ out'.typ = pfd.typ
                     /\ out'.state = [pfd.state EXCEPT !.x = @ + sign(n) * d] ]_vars

\* a move has brought the piece against a block, short of the wall
C27_Witness ==
  /\ outcome = [op |-> "move", ok |-> TRUE, thrown |-> ""]
  /\ fromSpawn /\ pfd = out /\ pfd.version = f.version
  /\ \E way \in {-1, 1} :
       LET beyond == [pfd.state EXCEPT !.x = @ + way]
       IN  /\ \A c \in cellsOf([typ |-> pfd.typ, state |-> beyond]) : c[1] \in solidRow
           /\ ~placeable(f, pfd.typ, beyond)

\* the largest d from k up to limit such that every placement of finder lowered by
\* k + 1..d rows is above the floor and on empty cells
RECURSIVE sinkFrom(_, _, _)
sinkFrom(finder, k, limit) ==
  IF k < limit /\ placeable(f, finder.typ, [finder.state EXCEPT !.y = @ - (k + 1)])
  THEN sinkFrom(finder, k + 1, limit)
  ELSE k

\* C28: drop returns the placement of the same orientation and x whose y is lower
\* by d rows, d the largest number up to steps such that every placement on the
\* way is free of collision; it returns false exactly when d is 0; the window of
\* the path finder returned is rows y'..y'+5 of the field at the new y'.
C28_DropSinks ==
  [][ outcome'.op = "drop" /\ fit(pfd) =>
        \A n \in DropSteps :
          Answered("drop", field_drop(f, pfd, n, out)) =>
            LET d == sinkFrom(pfd, 0, n)
            IN  /\ outcome'.thrown = ""
                /\ outcome'.ok = (d # 0)
                /\ d # 0 =>
                     /\ out'.typ = pfd.typ
                     /\ out'.state = [pfd.state EXCEPT !.y = @ - d]
                     /\ out'.current = cachedWindow(f, out'.state.y) ]_vars

\* a drop has ended on garbage above the floor, after fewer rows than asked, with
\* rows of garbage in the window
C28_Witness ==
  /\ outcome = [op |-> "drop", ok |-> TRUE, thrown |-> ""]
  /\ fromSpawn /\ pfd = out /\ pfd.version = f.version
  /\ tile_initTileState(pfd.typ).y - pfd.state.y \in 2..(fieldHeight - 1)
  /\ ~placeable(f, pfd.typ, [pfd.state EXCEPT !.y = @ - 1])
  /\ \A c \in cellsOf(pfd) : c[2] > 0
  /\ pfd.current = cachedWindow(f, pfd.state.y) /\ pfd.current # cachedWindow(field_field, 0)

lockEvents(evs) ==
  {evs[i] : i \in {j \in 1..Len(evs) : evs[j].event.kind = tileLockEvent}}

Calls == {"complete", "hardDrop", "swapTile"}
CallingKinds ==
  {tileMoveEvent, tileBeforeLockEvent, tileLockEvent, tileSwapEvent, tileSpawnEvent}
Listeners == [on : CallingKinds, call : Calls]

DropTo ==
  \E listener \in Listeners, dy \in DropSteps :
    Command(playground_dropTo(Begin, dy, listener))
HardDropTo == \E listener \in Listeners : Returns(playground_hardDropTo(Begin, listener))
SwapTileTo == \E listener \in Listeners : Command(playground_swapTileTo(Begin, listener))

\* the games with a listener that calls back: two pieces, one or two previews
ReentrantGames ==
  { [script |-> << tetT, tetI >>, numPreviews |-> n, maxMoves |-> MaxMoves] : n \in 1..2 }

InitReentrant ==
  \E g \in ReentrantGames, byte \in KickBytes :
    /\ tiles = mainTiles(byte)
    /\ IsPG(playground_playground(g.script, g.numPreviews))
    /\ moves = 0 /\ maxMoves = g.maxMoves
    /\ FieldIdle /\ BagIdle /\ KickIdle /\ RegIdle /\ RollIdle

NextReentrant == Start \/ DropTo \/ HardDropTo \/ SwapTileTo

SpecReentrant == InitReentrant /\ [][NextReentrant]_vars

\* C31: when handlers call the playground from inside an operation, no event is
\* dispatched and the field is not changed once the state is terminal, and no
\* operation of the field is called on a null or stale current: in the events of
\* a call a gameEnd is the last, its listeners see the field the call leaves, and
\* the call raises no error.
C31_ReentrantRespectsState ==
  [][ /\ raised' = ""
      /\ \A i \in 1..Len(events') :
           events'[i].event.kind = gameEndEvent =>
             i = Len(events') /\ events'[i].f = f' ]_vars

(***************************************************************************)
(* Properties of the preview queue as a queue.                             *)
(***************************************************************************)
\* g_n: what the n-th call of generate() returned to the playground, the
\* sentinel when the playground has made no n-th call
queued(n) == IF n <= generated THEN returned(n) ELSE Null

\* a spawn from the queue can still happen
queueInUse == state \in {notStarted, inGame} /\ raised = ""

\* C33: pieces leave the preview queue in the order the generator returned
\* them.  A call runs spawnNextTile at most once; its n-th run spawns g_n, the
\* value of the n-th call of generate(), in one tileSpawn event, and ends the
\* game as exhausted without a spawn when g_n is the sentinel.  While a queue
\* spawn can still happen, getPreview(i) for 0 <= i < numPreviews is g_(n+i+1)
\* after n runs, the piece the (i+1)-th next queue spawn uses, and getPreview
\* of an index out of range is the sentinel.
C33_PreviewIsFifo ==
  /\ [](queueInUse =>
        \A i \in -1..numPreviews :
          playground_getPreview(PG, i) =
            IF i \in 0..(numPreviews - 1) THEN queued(attempts + i + 1) ELSE Null)
  /\ [][ attempts' # attempts =>
          /\ attempts' = attempts + 1
          /\ queueInUse
          /\ queued(attempts') = playground_getPreview(PG, 0)
          /\ IF queued(attempts') = Null
             THEN spawnEvents(events') = {} /\ state' = exhausted
             ELSE /\ Cardinality(spawnEvents(events')) = 1
                  /\ \A i \in spawnEvents(events') :
                       events'[i].event.type = queued(attempts')
                  /\ current'.typ = queued(attempts')
                  /\ \A i \in 0..(numPreviews - 2) :
                       playground_getPreview(PG', i) = playground_getPreview(PG, i + 1) ]_vars

\* the third piece of a game of four has left a queue of two previews, the
\* fourth is the next and the slot after it holds the sentinel
C33_Witness ==
  /\ state = inGame /\ raised = "" /\ attempts = 3 /\ numPreviews = 2
  /\ script = << tetJ, tetL, tetI, tetO >>
  /\ current.typ = tetI
  /\ playground_getPreview(PG, 0) = tetO /\ playground_getPreview(PG, 1) = Null
  /\ previewCursor = 1

(***************************************************************************)
(* Properties of the row accessors of the field.                           *)
(***************************************************************************)
\* the values of solidCell a caller passes: the default and another colour
SolidCells == {1, 8}

\* the rows a caller asks for: under the floor, stored, and above the stack
rowIndices(fld) == (0 - 2)..(Len(fld.compactFields) + 1)

\* C37: for every row index y, cell i of rowAt(y) is non-zero iff bit i of
\* compactRowAt(y) is set; for y < 0 compactRowAt(y) is the full mask 1023 and
\* rowAt(y) is ten cells equal to solidCell, and for y >= height both are empty.
C37_RowAtAgrees ==
  \A y \in rowIndices(f), cell \in SolidCells :
    /\ \A i \in solidRow :
         field_rowAt(f, y, cell)[i] # 0 <=> i \in field_compactRowAt(f, y)
    /\ y < 0 =>
         /\ MaskOf(field_compactRowAt(f, y)) = fullMask
         /\ field_rowAt(f, y, cell) = [i \in solidRow |-> cell]
    /\ y >= Len(f.compactFields) =>
         /\ field_compactRowAt(f, y) = {}
         /\ field_rowAt(f, y, cell) = emptyFieldRow

(***************************************************************************)
(* Properties of the spawn placement and of field::spawn.                  *)
(***************************************************************************)
\* the lowest row a path finder's piece occupies
lowestRow(finder) == least({c[2] : c \in cellsOf(finder)})

\* C36: the path finder made for a tetromino, whichever it is, is at the spawn
\* placement: the initial orientation, x = 2, and y such that the lowest row the
\* piece occupies is row 19 of the field.  spawn of a path finder with a piece
\* returns true exactly when every cell of the piece at the path finder's
\* placement is free (inside the walls, above the floor and not occupied); it
\* leaves the field as it is, it leaves the path finder its piece and its
\* placement, and when it returns true the path finder carries the version of
\* the field.
C36_SpawnPlacement ==
  [][ /\ outcome'.op = "new" =>
          /\ pfd'.typ \in Tetromino
          /\ pfd'.state = tile_initTileState(pfd'.typ)
          /\ pfd'.state.dir = dirInitial /\ pfd'.state.x = 2
          /\ lowestRow(pfd') = 19
          /\ \A c \in cellsOf(pfd') : c[1] \in solidRow
      /\ outcome'.op = "spawn" /\ pfd.typ # Null =>
          /\ outcome'.thrown = ""
          /\ outcome'.ok <=> collisionFree(pfd)
          /\ f' = f
          /\ pfd'.typ = pfd.typ /\ pfd'.state = pfd.state
          /\ outcome'.ok => pfd'.version = f.version ]_vars

\* a new path finder has been spawned in a field with garbage
C36_Witness ==
  /\ outcome = [op |-> "spawn", ok |-> TRUE, thrown |-> ""]
  /\ Len(f.fields) > 0 /\ pfd.version = f.version /\ f.version > 1
  /\ pfd.state = tile_initTileState(pfd.typ)
  /\ collisionFree(pfd)

(***************************************************************************)
(* Properties of the version of the field.                                 *)
(***************************************************************************)
\* the calls that only read the field
readingOps == {"spawn", "move", "drop", "rotate"}

\* C38: the version of the field never decreases.  A lock that returns true
\* adds exactly 1 to it, whether it clears no row, one row or several, and so
\* does every grow.  spawn, move, drop and rotate, whatever they answer, and a
\* lock that returns false or throws leave the version and every row of the
\* field as they are.
C38_VersionCounts ==
  [][ /\ f'.version >= f.version
      /\ outcome'.op = "lock" /\ locks' # locks =>
           outcome'.ok /\ f'.version = f.version + 1
      /\ outcome'.op = "lock" /\ locks' = locks => ~outcome'.ok /\ f' = f
      /\ outcome'.op = "grow" => f'.version = f.version + 1
      /\ outcome'.op \in readingOps => f' = f
      /\ f'.version # f.version => outcome'.op \in {"lock", "grow"} ]_vars

\* a lock has cleared two rows at once, after a grow
C38_Witness ==
  /\ outcome = [op |-> "lock", ok |-> TRUE, thrown |-> ""]
  /\ clear = 2 /\ locks = 1 /\ grows = 1
  /\ f.version = pfd.version + 1

(***************************************************************************)
(* A game in which a row is completed: two I pieces laid flat against the  *)
(* two walls and an O between them.                                        *)
(***************************************************************************)
\* the commands the game takes besides the hard drops
MaxClearMoves == 2

\* the generator of the game
ClearScript == << tetI, tetI, tetO >>

InitClear ==
  \E byte \in KickBytes :
    /\ tiles = mainTiles(byte)
    /\ IsPG(playground_playground(ClearScript, 1))
    /\ moves = 0 /\ maxMoves = MaxClearMoves
    /\ FieldIdle /\ BagIdle /\ KickIdle /\ RegIdle /\ RollIdle

SpecClear == InitClear /\ [][Next]_vars

\* the rows the field stores, as indices of its vectors
storedRows == 1..Len(f.fields)

\* C40: in a game played from the empty field by the operations of the
\* playground alone, after every operation the two vectors of the field have
\* the same length, no stored row is full (mask 1023), no stored row is empty
\* (mask 0), and in every stored row bit i of the mask is set iff cell i of the
\* dense row is not 0.
C40_RowsPartlyFilled ==
  /\ Len(f.compactFields) = Len(f.fields)
  /\ \A y \in storedRows :
       /\ f.compactFields[y] # solidRow
       /\ f.compactFields[y] # {}
       /\ \A i \in solidRow : i \in f.compactFields[y] <=> f.fields[y][i] # 0

\* a hard drop has completed and cleared the bottom row, and the row above it is
\* the bottom row now
C40_Witness ==
  /\ state \in {inGame, exhausted} /\ raised = ""
  /\ \E i \in 1..Len(events) :
       events[i].event.kind = tileLockEvent /\ events[i].event.clear = 1
  /\ Len(f.fields) = 1

(***************************************************************************)
(* Conservation of the pieces.                                             *)
(***************************************************************************)
\* the number of times generate() has returned the piece to the playground
handedOut(piece) == Cardinality({k \in 1..generated : returned(k) = piece})

\* the number of times the piece has been locked
lockedSoFar(piece) ==
  Cardinality({i \in 1..Len(log) : log[i] = << tileLockEvent, piece >>})

\* the number of slots of the preview queue that hold the piece
previewed(piece) == Cardinality({i \in DOMAIN preview : preview[i] = piece})

\* 1 when the slot holds the piece, 0 when it does not
one(slot, piece) == IF slot = piece THEN 1 ELSE 0

MaxWindow == 2
MaxRetries == 1
MaxRolls == 3

\* the working sets: one piece, the same piece twice, two pieces
RollTiles == { << tetT >>, << tetT, tetT >>, << tetT, tetI >> }

\* the initial histories of the size given over a working set: indices of the
\* set and the index just past it, which matches no piece
RollHistories(working, size) == [1..size -> 0..Len(working)]

InitRoll ==
  /\ tiles = mainTiles(0)
  /\ PlaygroundIdle
  /\ FieldIdle /\ BagIdle /\ KickIdle /\ RegIdle
  /\ \E working \in RollTiles, retries \in 0..MaxRetries, size \in 0..MaxWindow :
       \E past \in RollHistories(working, size) :
         roll = historyRoll_historyRoll(working, retries, past, size)

\* roll.generate(): the sampler has at hand one value more than the retries
\* and the first sample can take
RollGenerate ==
  /\ Len(roll.accepted) < MaxRolls
  /\ \E draws \in [1..(roll.retryTimes + 2) -> 0..(roll.numTiles - 1)] :
       roll' = historyRoll_generate(roll, draws)
  /\ UNCHANGED << gameVars, fieldVars, bagVars, kickVars, regVars >>

NextRoll == RollGenerate

SpecRoll == InitRoll /\ [][NextRoll]_vars

\* the number of entries of a history that are the index
inWindow(history, index) ==
  Cardinality({k \in 1..Len(history) : history[k] = index})

\* the indices pushed so far, the initial history first
pushedSoFar == roll.initial \o roll.accepted

\* C34: after the construction and after every generate(), the history holds
\* exactly historySize entries, which are the historySize most recent indices
\* pushed (those of the initial history counting as pushed first), oldest
\* first, and counts[i] is the number of entries of the history equal to i, for
\* every index i of the working set: no count goes below zero, whatever the
\* size of the history (0 included) and whatever indices past the working set
\* the initial history holds.
C34_CountsMatchHistory ==
  roll.numTiles > 0 =>
    /\ Len(roll.history) = roll.historySize
    /\ roll.history =
         SubSeq(pushedSoFar, Len(roll.accepted) + 1, Len(pushedSoFar))
    /\ \A i \in 0..(roll.numTiles - 1) :
         roll.counts[i] >= 0 /\ roll.counts[i] = inWindow(roll.history, i)

\* generate() has evicted an entry of the initial history that is past the
\* working set, and an entry of the working set after it
C34_Witness ==
  /\ roll.numTiles = 2 /\ roll.historySize = 2
  /\ roll.initial = << 2, 0 >>
  /\ Len(roll.accepted) = 2
  /\ roll.history = roll.accepted

\* the index the last call of generate() accepted
lastIndex == roll.accepted[Len(roll.accepted)]

\* C35: a call of generate() takes at least one sample and at most
\* retryTimes + 1; it returns the piece of the working set at the index sampled
\* last, never the sentinel; every sample before the last had a count other
\* than zero when the call began; a call that took fewer than retryTimes + 1
\* samples accepted an index whose count was zero, so that an index with a
\* count other than zero is accepted only when all the retryTimes + 1 samples
\* had one.  The test is on the index: an index whose count is zero is
\* accepted at once even when another index of the same tile is in the history.
C35_RetriesBounded ==
  Len(roll.accepted) > 0 =>
    /\ Len(roll.samples) \in 1..(roll.retryTimes + 1)
    /\ lastIndex = roll.samples[Len(roll.samples)]
    /\ lastIndex \in 0..(roll.numTiles - 1)
    /\ roll.ret = roll.working[lastIndex + 1] /\ roll.ret # Null
    /\ \A k \in 1..(Len(roll.samples) - 1) : roll.before[roll.samples[k]] # 0
    /\ Len(roll.samples) < roll.retryTimes + 1 => roll.before[lastIndex] = 0
    /\ roll.before[lastIndex] # 0 =>
         /\ Len(roll.samples) = roll.retryTimes + 1
         /\ \A k \in 1..Len(roll.samples) : roll.before[roll.samples[k]] # 0

\* a call has given up: its first sample and its retry were both in the history
C35_Witness ==
  /\ Len(roll.accepted) > 0 /\ roll.retryTimes = 1
  /\ Len(roll.samples) = 2
  /\ roll.before[lastIndex] # 0
  /\ \E i \in 1..Len(roll.history) : roll.history[i] = lastIndex

====
